---- MODULE Spec2Model ----
(***************************************************************************)
(* Federation middleware (src/federation/middleware.ts): the outbound      *)
(* queue listener with its retry loop, Federation.sendActivity, the send   *)
(* pipeline (send.ts) and the inbox surface of Federation.fetch.           *)
(***************************************************************************)
EXTENDS Integers, Sequences, FiniteSets, Bags, TLC

\* The absent value (null / undefined).
Null == "null"

\* ---------------------------------------------------------------- bounds
\* Longest configured backoff schedule.
MaxBackoff == 2
\* Messages (inboxes) of the sendActivity call whose deliveries are followed.
MaxMessages == 2
\* Times the queue hands an already handed message to the listener again.
MaxRedeliver == 1

\* ------------------------------------------------------------ the inputs
\* The i-th delay of a configured schedule, in milliseconds: all distinct.
Duration(i) == 100 * i

\* The constructor's default schedule, in milliseconds.
DefaultBackoffSchedule == <<3000, 15000, 60000, 900000, 3600000>>

\* The schedules the FederationParameters can carry, or "default": not given.
BackoffParameters ==
    { <<"default">> }
      \cup { <<"custom", [i \in 1..n |-> Duration(i)]>> : n \in 0..MaxBackoff }

\* The sender's key, as sendActivity receives it and as the message carries it.
SenderKeyId == "https://example.com/users/alice#main-key"
SenderPrivateKey == "privateKey2"
Sender == [keyId |-> SenderKeyId, privateKey |-> SenderPrivateKey]

\* exportJwk / importJwk: the JWK form of a key and back.
exportJwk(key) == <<"jwk", key>>
importJwk(jwk) == jwk[2]

ActorIds == {Null, "https://example.com/users/alice"}
ActivityIds == {Null, "https://example.com/create/1"}
\* Activities handed to sendActivity: with or without id, with or without actor.
Activities == [id : ActivityIds, actorId : ActorIds]

InboxA == "https://remote.test/users/a/inbox"
InboxB == "https://remote.test/users/b/inbox"
SharedS == "https://remote.test/inbox"

\* A URL object: the URL it denotes (href) and the object it is (ref). Two
\* URL objects are the same element of a Set only when they are one object.
URL(href, ref) == <<href, ref>>
Href(url) == url[1]

\* Recipients: actor objects, each with its own URL objects. A has a personal
\* and a shared inbox, B another personal inbox and the same shared inbox URL,
\* C only B's personal inbox URL, D no inbox at all, S a personal inbox at the
\* shared inbox URL. <<>> is a missing inbox.
ActorA == [inboxId |-> URL(InboxA, 1), sharedInbox |-> URL(SharedS, 2)]
ActorB == [inboxId |-> URL(InboxB, 3), sharedInbox |-> URL(SharedS, 4)]
ActorC == [inboxId |-> URL(InboxB, 5), sharedInbox |-> <<>>]
ActorD == [inboxId |-> <<>>, sharedInbox |-> <<>>]
ActorS == [inboxId |-> URL(SharedS, 6), sharedInbox |-> <<>>]
Recipients == {ActorA, ActorB, ActorC, ActorD, ActorS}
MaxRecipients == 2
RecipientLists == UNION { [1..n -> Recipients] : n \in 0..MaxRecipients }

\* What the remote inbox does with a POST.
Responses == {"2xx", "5xx", "networkError"}
\* What happens when the listener runs on a message: does the activity
\* rehydrate, and what does the remote inbox answer.
ListenEnvs ==
    { [rehydrate |-> "ok", response |-> r] : r \in Responses }
      \cup { [rehydrate |-> "fail", response |-> "2xx"] }
\* What a call of the user's onOutboxError does.
HandlerResults == {"returned", "threw", "rejected"}

\* An optional value: None (undefined), or Some(v).
None == <<>>
Some(v) == <<v>>

\* seq[i] of the source: 0-based, undefined out of range.
At(seq, i) == IF i + 1 \in DOMAIN seq THEN Some(seq[i + 1]) ELSE None

VARIABLES
    backoffSchedule,  \* #backoffSchedule
    onOutboxError,    \* #onOutboxError: "set" or Null
    queue,            \* #queue: "mq", "mqAsync" or Null
    queueStarted,     \* #queueStarted
    listenCalls,      \* how often queue.listen was called
    mqPending,        \* the queue: entries not yet handed to the listener
    enqueues,         \* the enqueue promises that are not fulfilled
    mqHanded,         \* the queue: entries handed at least once
    redeliveries,     \* how often the queue handed an entry again
    chains,           \* number of messages sendActivity has enqueued
    attempts,         \* per chain: listener runs
    raised,           \* per chain: listener runs whose try block raised
    errCalls,         \* per chain: onOutboxError invocations
    redelivered,      \* per chain: some entry of it was handed twice
    last,             \* the last listener run
    lastSend          \* the last sendActivity call

outboxVars ==
    <<backoffSchedule, onOutboxError, queue, queueStarted, listenCalls, mqPending, enqueues,
      mqHanded, redeliveries, chains, attempts, raised, errCalls,
      redelivered, last, lastSend>>

VARIABLES
    actorCallbacks,     \* #actorCallbacks: the dispatcher and the key pair dispatcher
    router,             \* #router: the registered routes
    inboxListeners,     \* #inboxListeners: the activity classes and their listener
    inboxErrorHandler,  \* #inboxErrorHandler: the handler or Null
    kv,                 \* #kv: the keys that hold a value
    listenerCalls,      \* per activity id: invocations of an inbox listener
    lastFetch,          \* the last fetch call that ended
    inflight            \* the fetch calls suspended inside the inbox handler

registryVars == <<actorCallbacks, router, inboxListeners, inboxErrorHandler>>

inboxVars == <<registryVars, kv, listenerCalls, lastFetch, inflight>>

VARIABLES
    signedKey,        \* the signedKey cell of the RequestContext
    signedKeyOwner,   \* the signedKeyOwner cell of the RequestContext
    verifications,    \* how often verify() was started on the request
    ownerLookups,     \* how often getKeyOwner() was started
    calls,            \* the getSignedKey / getSignedKeyOwner calls on the context
    returnedKeys,     \* the values getSignedKey() calls have returned
    returnedOwners    \* the values getSignedKeyOwner() calls have returned

contextVars ==
    <<signedKey, signedKeyOwner, verifications, ownerLookups, calls,
      returnedKeys, returnedOwners>>

VARIABLES
    sending,          \* the immediate sendActivity call and its deliveries
    lastCall          \* the last call of a method of a context

callVars == <<sending, lastCall>>

VARIABLES
    nodeInfoDispatcher,   \* #nodeInfoDispatcher
    objectCallbacks,      \* #objectCallbacks: per object class
    outboxCallbacks,      \* #outboxCallbacks
    followingCallbacks,   \* #followingCallbacks
    followersCallbacks,   \* #followersCallbacks
    registrations,        \* how many registration calls were made
    registered,           \* the registrations that succeeded
    lastRegistration      \* the last registration call

registrationVars ==
    <<nodeInfoDispatcher, objectCallbacks, outboxCallbacks, followingCallbacks,
      followersCallbacks, registrations, registered, lastRegistration>>

vars == <<outboxVars, inboxVars, contextVars, callVars, registrationVars>>

\* Calls made on one RequestContext.
MaxCalls == 3
ContextCalls == 1..MaxCalls

Chains == 1..MaxMessages

NoRun ==
    [chain |-> 0, message |-> None, fresh |-> TRUE, env |-> None, result |-> "none",
     handler |-> "notCalled", handlerActivity |-> None, unhandledRejection |-> FALSE,
     enqueued |-> {}]

NoSend ==
    [result |-> "none", posts |-> {}, enqueued |-> {}, activity |-> None,
     started |-> FALSE, recipients |-> <<>>, preferSharedInbox |-> FALSE,
     immediate |-> FALSE, inboxes |-> {}, listens |-> 0, sender |-> None,
     given |-> None, sent |-> {}]

\* The constructor: backoffSchedule ?? the default.
constructor(params) ==
    /\ backoffSchedule =
          IF params.backoffSchedule[1] = "default" THEN DefaultBackoffSchedule
          ELSE params.backoffSchedule[2]
    /\ onOutboxError = params.onOutboxError
    /\ queue = params.queue
    /\ queueStarted = FALSE
    /\ listenCalls = 0

FederationParameters ==
    [backoffSchedule : BackoffParameters, onOutboxError : {Null, "set"}, queue : {Null, "mq"}]

\* An empty queue, no listener run.
QueueEmpty ==
    /\ mqPending = EmptyBag
    /\ enqueues = {}
    /\ mqHanded = EmptyBag
    /\ redeliveries = 0
    /\ chains = 0
    /\ attempts = [c \in Chains |-> 0]
    /\ raised = [c \in Chains |-> 0]
    /\ errCalls = [c \in Chains |-> 0]
    /\ redelivered = [c \in Chains |-> FALSE]
    /\ last = NoRun

\* Nothing sent yet.
QueueIdle ==
    /\ QueueEmpty
    /\ lastSend = NoSend

\* ------------------------------------------------- the registry at rest
\* The routes the constructor adds; a path is its sequence of segments.
ConstructorRoutes ==
    { [template |-> <<".well-known", "webfinger">>, name |-> "webfinger"],
      [template |-> <<".well-known", "nodeinfo">>, name |-> "nodeInfoJrd"] }

\* #actorCallbacks undefined: no actor dispatcher registered.
NoActorCallbacks ==
    [dispatcher |-> Null, keyPairDispatcher |-> Null, authorizePredicate |-> Null]

\* The registry as the constructor leaves it.
RegistryIdle ==
    /\ actorCallbacks = NoActorCallbacks
    /\ router = ConstructorRoutes
    /\ inboxListeners = {}
    /\ inboxErrorHandler = Null

\* The activity ids that arrive at the inboxes.
InboxActivityIds == {"https://remote.test/create/1", "https://remote.test/create/2"}

\* Concurrent fetch calls inside the inbox handler.
MaxInFlight == 2
Slots == 1..MaxInFlight
Idle == [pc |-> "idle", request |-> None, params |-> None]

NoFetch ==
    [request |-> None, outcome |-> "none", status |-> 0, error |-> Null,
     duplicate |-> FALSE, listener |-> "notCalled", listenerClass |-> Null,
     loader |-> Null, handler |-> "notCalled", handlerCalls |-> 0,
     handlerError |-> Null]

\* No request received yet: an empty store, no fetch call in progress.
InboxIdle ==
    /\ kv = {}
    /\ listenerCalls = [id \in InboxActivityIds |-> 0]
    /\ lastFetch = NoFetch
    /\ inflight = [s \in Slots |-> Idle]

\* The object classes with a dispatcher of their own.
ObjectClasses == {"Note", "Article"}

NoRegistration ==
    [name |-> Null, path |-> <<>>, sharedInboxPath |-> None, dispatcher |-> Null,
     result |-> "none", message |-> Null]

\* No registration call made yet: no dispatcher but those Init gives.
NothingRegistered ==
    /\ nodeInfoDispatcher = Null
    /\ objectCallbacks = [cls \in ObjectClasses |-> None]
    /\ outboxCallbacks = None
    /\ followingCallbacks = None
    /\ followersCallbacks = None
    /\ registrations = 0
    /\ registered = {}
    /\ lastRegistration = NoRegistration

\* No immediate sendActivity call in progress.
NotSending == [pc |-> "idle", result |-> "none", activity |-> None, deliveries |-> <<>>]

\* No method of a context called yet.
NoContextCall == [method |-> "none", args |-> <<>>, result |-> <<>>]

CallsIdle ==
    /\ sending = NotSending
    /\ lastCall = NoContextCall

\* ------------------------------------------- RequestContext: the signed key
\* The memo cells of one RequestContext: undefined until computed, then null
\* or the value.
Undefined == <<"undefined">>
NullValue == <<"null">>

\* What verify() and getKeyOwner() answer when they run: null, or an object
\* made by that run (the n-th call's).
CryptographicKey(n) == <<"CryptographicKey", n>>
Actor(n) == <<"Actor", n>>
VerifyResults(n) == {NullValue, CryptographicKey(n)}
KeyOwnerResults(n) == {NullValue, Actor(n)}

\* No call made on the context yet.
NoCall == [op |-> "none", pc |-> "idle", key |-> Undefined]

\* createContext(request, contextData): the memo cells start undefined.
ContextNew ==
    /\ signedKey = Undefined
    /\ signedKeyOwner = Undefined
    /\ verifications = 0
    /\ ownerLookups = 0
    /\ calls = [c \in ContextCalls |-> NoCall]
    /\ returnedKeys = {}
    /\ returnedOwners = {}

OutboxInit ==
    /\ \E params \in { p \in FederationParameters :
                          p.queue # Null /\ p.backoffSchedule[1] = "custom" } :
         constructor(params)
    /\ QueueIdle
    /\ RegistryIdle
    /\ InboxIdle
    /\ ContextNew
    /\ CallsIdle
    /\ NothingRegistered

\* ------------------------------------------------------------- send.ts
\* (mutant) the shared inbox or nothing, without the personal inbox to fall
\* back on.
inboxOfWithoutFallback(recipient, preferSharedInbox) ==
    IF preferSharedInbox THEN recipient.sharedInbox ELSE recipient.inboxId

\* The inbox one recipient contributes:
\* preferSharedInbox ? endpoints?.sharedInbox ?? inboxId : inboxId.
inboxOf(recipient, preferSharedInbox) ==
    IF preferSharedInbox
    THEN (IF recipient.sharedInbox # <<>> THEN recipient.sharedInbox
          ELSE recipient.inboxId)
    ELSE recipient.inboxId

\* extractInboxes: the set of inbox URL objects of the recipients.
RECURSIVE extractInboxesFrom(_, _, _)
extractInboxesFrom(recipients, preferSharedInbox, i) ==
    IF i > Len(recipients) THEN {}
    ELSE LET inbox == inboxOf(recipients[i], preferSharedInbox)
         IN  (IF inbox # <<>> THEN {inbox} ELSE {})
               \cup extractInboxesFrom(recipients, preferSharedInbox, i + 1)

extractInboxes(recipients, preferSharedInbox) ==
    extractInboxesFrom(recipients, preferSharedInbox, 1)

\* sendActivity of send.ts: "TypeError" without an actor, "error" when the
\* POST itself fails, else response.ok.
sendActivity(activity, response) ==
    IF activity.actorId = Null THEN "TypeError"
    ELSE IF response = "networkError" THEN "error"
    ELSE IF response = "2xx" THEN "true"
    ELSE "false"

\* ------------------------------------------------------- #listenQueue
\* Activity.toJsonLd / Activity.fromJsonLd: the JSON-LD form and back.
toJsonLd(activity) == <<"jsonld", activity.id, activity.actorId>>
fromJsonLd(json) == [id |-> json[2], actorId |-> json[3]]

\* (mutant) the retry test, off by one.
shouldRetryOffByOne(message) == message.trial <= Len(backoffSchedule)

\* The retry test of the catch block.
shouldRetry(message) == message.trial < Len(backoffSchedule)

\* (mutant) the delay of the trial the retry will be, not of the one that failed.
retryDelayOfNextTrial(message) == At(backoffSchedule, message.trial + 1)

\* The delay a retry is enqueued with.
retryDelay(message) == At(backoffSchedule, message.trial)

\* (mutant) the retry enqueued with the trial it was received with.
retryMessageSameTrial(message) == message

\* (mutant) the retry addressed to the key id instead of the inbox.
retryMessageToKeyId(message) ==
    [message EXCEPT !.trial = message.trial + 1, !.inbox = message.keyId]

\* The message a retry enqueues.
retryMessage(message) == [message EXCEPT !.trial = message.trial + 1]

\* Whether the try block of the listener ends in the catch block.
tryRaises(activity, env) ==
    IF env.rehydrate = "fail" THEN TRUE
    ELSE sendActivity(activity[1], env.response) \in {"TypeError", "error"}

\* (mutant) the handler invoked after the try statement, not in its catch block.
invokesOnOutboxErrorAfterTry(caught) == onOutboxError # Null

\* Whether the catch block invokes the handler (this.#onOutboxError?.()).
invokesOnOutboxError(caught) == caught /\ onOutboxError # Null

\* What becomes of a failure of the handler: a throw is caught and logged, a
\* rejected promise is not awaited and stays unhandled.
handlerEscapes(h) == h = "rejected"

\* (mutant) the activity variable set before the rehydration is known to succeed.
rehydrateEarly(message, env) == Some(fromJsonLd(message.activity))

\* The activity variable of the listener when the try block ends: null until
\* Activity.fromJsonLd has returned.
rehydrate(message, env) ==
    IF env.rehydrate = "ok" THEN Some(fromJsonLd(message.activity)) ELSE None

\* An enqueue promise nobody holds: the entry and the state of the promise.
EnqueuePromise(entry, state) == [entry |-> entry, state |-> state]

\* this.#queue.enqueue(message) for each of the entries, no promise awaited.
\* The queue "mq" has taken a message when enqueue returns; with "mqAsync"
\* some are taken by then and the promises of the others are pending.
enqueue(kept, new) ==
    IF queue = "mqAsync"
    THEN \E taken \in SUBSET new :
           /\ mqPending' = kept (+) SetToBag(taken)
           /\ enqueues' = enqueues \cup { EnqueuePromise(e, "pending") : e \in new \ taken }
    ELSE /\ mqPending' = kept (+) SetToBag(new)
         /\ enqueues' = enqueues

listenQueue(entry, fresh, env, h) ==
    LET message == entry.msg
        activity == rehydrate(message, env)
        caught == tryRaises(activity, env)
        called == invokesOnOutboxError(caught)
        retry == caught /\ shouldRetry(message)
        new == IF retry
               THEN {[msg |-> retryMessage(message), delay |-> retryDelay(message),
                      chain |-> entry.chain]}
               ELSE {}
        c == entry.chain
    IN  /\ IF called THEN TRUE ELSE h = "returned"
        /\ attempts' = [attempts EXCEPT ![c] = @ + 1]
        /\ raised' = [raised EXCEPT ![c] = @ + (IF caught THEN 1 ELSE 0)]
        /\ errCalls' = [errCalls EXCEPT ![c] = @ + (IF called THEN 1 ELSE 0)]
        /\ last' = [chain |-> c, message |-> Some(message), fresh |-> fresh, env |-> Some(env),
                    result |-> IF caught THEN "caught" ELSE "success",
                    handler |-> IF called THEN h ELSE "notCalled",
                    handlerActivity |-> IF called THEN activity ELSE None,
                    unhandledRejection |-> called /\ handlerEscapes(h),
                    enqueued |-> new]
        /\ enqueue(IF fresh THEN mqPending (-) SetToBag({entry}) ELSE mqPending, new)
        /\ mqHanded' = IF fresh THEN mqHanded (+) SetToBag({entry}) ELSE mqHanded

\* The queue hands a pending entry to the listener.
Deliver ==
    /\ queueStarted
    /\ \E entry \in BagToSet(mqPending), env \in ListenEnvs, h \in HandlerResults :
         listenQueue(entry, TRUE, env, h)
    /\ UNCHANGED <<backoffSchedule, onOutboxError, queue, queueStarted, listenCalls,
                   redeliveries, chains, redelivered, lastSend>>
    /\ UNCHANGED <<inboxVars, contextVars, callVars, registrationVars>>

\* The queue hands an entry to the listener once more (at-least-once delivery).
Redeliver ==
    /\ queueStarted
    /\ redeliveries < MaxRedeliver
    /\ \E entry \in BagToSet(mqHanded), env \in ListenEnvs, h \in HandlerResults :
         /\ listenQueue(entry, FALSE, env, h)
         /\ redelivered' = [redelivered EXCEPT ![entry.chain] = TRUE]
    /\ redeliveries' = redeliveries + 1
    /\ UNCHANGED <<backoffSchedule, onOutboxError, queue, queueStarted, listenCalls,
                   chains, lastSend>>
    /\ UNCHANGED <<inboxVars, contextVars, callVars, registrationVars>>

\* ------------------------------------------------ Federation.sendActivity
\* (mutant) listen on every call, when a queue is configured.
startQueueEveryTime ==
    IF queue # Null
    THEN /\ listenCalls' = listenCalls + 1
         /\ queueStarted' = TRUE
    ELSE UNCHANGED <<listenCalls, queueStarted>>

\* #startQueue: listen once, when a queue is configured.
startQueue ==
    IF queue # Null /\ ~queueStarted
    THEN /\ listenCalls' = listenCalls + 1
         /\ queueStarted' = TRUE
    ELSE UNCHANGED <<listenCalls, queueStarted>>

\* crypto.randomUUID(): a fresh urn:uuid id, the n-th one.
randomUUID(n) == "urn:uuid:" \o ToString(n)

\* (mutant) the message enqueued as if one trial had been made.
outboxMessageAfterOneTrial(keyId, privateKeyJwk, activityJson, inbox) ==
    [type |-> "outbox", keyId |-> keyId, privateKey |-> privateKeyJwk,
     activity |-> activityJson, inbox |-> inbox, trial |-> 1]

\* The message sendActivity enqueues for one inbox.
outboxMessage(keyId, privateKeyJwk, activityJson, inbox) ==
    [type |-> "outbox", keyId |-> keyId, privateKey |-> privateKeyJwk,
     activity |-> activityJson, inbox |-> inbox, trial |-> 0]

\* Chain numbers for the inboxes of one call: the order the loop visits them.
Numbering(inboxes) ==
    CHOOSE f \in [inboxes -> (chains + 1)..(chains + Cardinality(inboxes))] :
        \A a, b \in inboxes : a # b => f[a] # f[b]

\* (mutant) Promise.any: fulfilled when one promise is, rejected otherwise.
promiseAny(outcomes) ==
    IF \E o \in outcomes : o \notin {"TypeError", "error"} THEN "ok" ELSE "error"

\* await Promise.all(promises) once every promise is settled: rejected when
\* one of them is, fulfilled otherwise.
promiseAll(outcomes) ==
    IF \E o \in outcomes : o \in {"TypeError", "error"} THEN "error" ELSE "ok"

\* (mutant) the TypeError thrown after #startQueue().
throwTypeErrorAfterStartQueue(recipients, preferSharedInbox, immediate) ==
    /\ startQueue
    /\ lastSend' = [NoSend EXCEPT !.result = "TypeError",
                                  !.started = queueStarted',
                                  !.recipients = recipients,
                                  !.preferSharedInbox = preferSharedInbox,
                                  !.immediate = immediate]
    /\ UNCHANGED <<mqPending, enqueues, chains>>

\* The activity has no actor: the TypeError is thrown before anything else.
throwTypeError(recipients, preferSharedInbox, immediate) ==
    /\ lastSend' = [NoSend EXCEPT !.result = "TypeError",
                                  !.started = queueStarted,
                                  !.recipients = recipients,
                                  !.preferSharedInbox = preferSharedInbox,
                                  !.immediate = immediate]
    /\ UNCHANGED <<listenCalls, queueStarted, mqPending, enqueues, chains>>

\* (mutant) the activity sent as the caller gave it.
cloneWithoutId(given, n) == given

\* if (activity.id == null) activity = activity.clone({id: urn:uuid:...}): the
\* activity the call sends, the caller's object left as it is.
cloneWithId(given, n) ==
    IF given.id = Null THEN [given EXCEPT !.id = randomUUID(n)] ELSE given

Federation_sendActivity(sender, given, recipients, preferSharedInbox, immediate, responses) ==
    IF given.actorId = Null
    THEN throwTypeError(recipients, preferSharedInbox, immediate)
    ELSE LET activity == cloneWithId(given, chains + 1)
             inboxes == extractInboxes(recipients, preferSharedInbox)
         IN  /\ startQueue
             /\ IF immediate \/ queue = Null
                THEN /\ lastSend' =
                          [result |-> promiseAll({ sendActivity(activity, responses[i]) :
                                                     i \in inboxes }),
                           posts |-> inboxes, enqueued |-> {},
                           activity |-> Some(activity), started |-> queueStarted',
                           recipients |-> recipients,
                           preferSharedInbox |-> preferSharedInbox,
                           immediate |-> immediate, inboxes |-> inboxes,
                           listens |-> listenCalls' - listenCalls,
                           sender |-> Some(sender), given |-> Some(given),
                           sent |-> { <<i, activity>> : i \in inboxes }]
                     /\ UNCHANGED <<mqPending, enqueues, chains>>
                ELSE /\ chains + Cardinality(inboxes) <= MaxMessages
                     /\ LET number == Numbering(inboxes)
                              new == { [msg |-> outboxMessage(sender.keyId,
                                                   exportJwk(sender.privateKey),
                                                   toJsonLd(activity), Href(i)),
                                        delay |-> None, chain |-> number[i]] : i \in inboxes }
                          IN  /\ enqueue(mqPending, new)
                              /\ lastSend' = [result |-> "ok", posts |-> {},
                                              enqueued |-> new,
                                              activity |-> Some(activity),
                                              started |-> queueStarted',
                                              recipients |-> recipients,
                                              preferSharedInbox |-> preferSharedInbox,
                                              immediate |-> immediate,
                                              inboxes |-> inboxes,
                                              listens |-> listenCalls' - listenCalls,
                                              sender |-> Some(sender),
                                              given |-> Some(given), sent |-> {}]
                     /\ chains' = chains + Cardinality(inboxes)

\* What each remote inbox answers to the POSTs of one immediate call.
PostResponses(inboxes, posting) ==
    IF posting THEN [inboxes -> Responses] ELSE { [i \in inboxes |-> "2xx"] }

\* The recipient lists of the calls: none, one without inbox, one, the same
\* actor twice, two with one shared inbox URL, two with one personal inbox URL.
SendRecipientLists ==
    { <<>>, <<ActorD>>, <<ActorA>>, <<ActorA, ActorA>>, <<ActorA, ActorB>>,
      <<ActorB, ActorC>> }

SendActivity ==
    /\ \E given \in Activities, recipients \in SendRecipientLists,
          preferSharedInbox \in BOOLEAN, immediate \in BOOLEAN :
         \E responses \in PostResponses(extractInboxes(recipients, preferSharedInbox),
                                        immediate \/ queue = Null) :
           Federation_sendActivity(Sender, given, recipients, preferSharedInbox,
                                   immediate, responses)
    /\ UNCHANGED <<backoffSchedule, onOutboxError, queue, mqHanded, redeliveries,
                   attempts, raised, errCalls, redelivered, last>>
    /\ UNCHANGED <<inboxVars, contextVars, callVars, registrationVars>>

\* The recipient lists of the queued calls: none, one, two with one shared
\* inbox, three.
QueuedRecipientLists ==
    { <<>>,
      <<ActorA>>,
      <<ActorA, ActorB>>,
      <<ActorA, ActorB, ActorS>> }

\* A queued-mode sendActivity call of a valid activity to at most n recipients,
\* the first call that enqueues something.
SendQueuedTo(n) ==
    /\ queue # Null
    /\ chains = 0
    /\ \E given \in { a \in Activities : a.actorId # Null },
          recipients \in { l \in QueuedRecipientLists : Len(l) <= n },
          preferSharedInbox \in BOOLEAN :
         Federation_sendActivity(Sender, given, recipients, preferSharedInbox, FALSE,
                                 [i \in extractInboxes(recipients, preferSharedInbox) |-> "2xx"])
    /\ UNCHANGED <<backoffSchedule, onOutboxError, queue, mqHanded, redeliveries,
                   attempts, raised, errCalls, redelivered, last>>
    /\ UNCHANGED <<inboxVars, contextVars, callVars, registrationVars>>

SendQueued == SendQueuedTo(MaxMessages)

\* The outbox under a queue that hands each message to the listener once.
OutboxNext == SendQueued \/ Deliver

SpecOutbox == OutboxInit /\ [][OutboxNext]_vars

\* One message under a queue that may hand a message more than once.
SendOne == SendQueuedTo(1)

\* One message under a fair queue that hands each message once: a pending
\* message is handed to the listener in the end, and every run of it ends.
ChainNext == SendOne \/ Deliver

SpecChainFair == OutboxInit /\ [][ChainNext]_vars /\ WF_vars(Deliver)

\* A pending enqueue promise settles: fulfilled, the queue has the message;
\* rejected, it has not, and no handler is attached to the promise.
EnqueueSettles ==
    /\ \E p \in enqueues, state \in {"fulfilled", "rejected"} :
         /\ p.state = "pending"
         /\ IF state = "fulfilled"
            THEN /\ mqPending' = mqPending (+) SetToBag({p.entry})
                 /\ enqueues' = enqueues \ {p}
            ELSE /\ mqPending' = mqPending
                 /\ enqueues' = (enqueues \ {p}) \cup {EnqueuePromise(p.entry, "rejected")}
    /\ UNCHANGED <<backoffSchedule, onOutboxError, queue, queueStarted, listenCalls,
                   mqHanded, redeliveries, chains, attempts, raised, errCalls,
                   redelivered, last, lastSend>>
    /\ UNCHANGED <<inboxVars, contextVars, callVars, registrationVars>>

\* The outbox on a queue whose enqueue settles later.
EnqueueInit ==
    /\ \E backoff \in { b \in BackoffParameters : b[1] = "custom" } :
         constructor([backoffSchedule |-> backoff, onOutboxError |-> Null,
                      queue |-> "mqAsync"])
    /\ QueueIdle
    /\ RegistryIdle
    /\ InboxIdle
    /\ ContextNew
    /\ CallsIdle
    /\ NothingRegistered

EnqueueNext == SendQueued \/ Deliver \/ EnqueueSettles

SpecEnqueue == EnqueueInit /\ [][EnqueueNext]_vars

AtLeastOnceNext == SendOne \/ Deliver \/ Redeliver

SpecAtLeastOnce == OutboxInit /\ [][AtLeastOnceNext]_vars

\* Any sequence of sendActivity calls, with and without a queue.
SendInit ==
    /\ \E q \in {Null, "mq"} :
         constructor([backoffSchedule |-> <<"default">>, onOutboxError |-> Null,
                      queue |-> q])
    /\ QueueIdle
    /\ RegistryIdle
    /\ InboxIdle
    /\ ContextNew
    /\ CallsIdle
    /\ NothingRegistered

SendNext == SendActivity

SpecSend == SendInit /\ [][SendNext]_vars

\* extractInboxes alone, on every recipient list.
ExtractInit ==
    /\ constructor([backoffSchedule |-> <<"default">>, onOutboxError |-> Null,
                    queue |-> Null])
    /\ QueueEmpty
    /\ \E recipients \in RecipientLists, preferSharedInbox \in BOOLEAN :
         lastSend = [NoSend EXCEPT !.recipients = recipients,
                                   !.preferSharedInbox = preferSharedInbox]
    /\ RegistryIdle
    /\ InboxIdle
    /\ ContextNew
    /\ CallsIdle
    /\ NothingRegistered

ExtractInboxes ==
    /\ lastSend.result = "none"
    /\ lastSend' = [lastSend EXCEPT
                      !.result = "extracted",
                      !.inboxes = extractInboxes(lastSend.recipients,
                                                 lastSend.preferSharedInbox)]
    /\ UNCHANGED <<backoffSchedule, onOutboxError, queue, queueStarted, listenCalls,
                   mqPending, enqueues, mqHanded, redeliveries, chains, attempts, raised,
                   errCalls, redelivered, last>>
    /\ UNCHANGED <<inboxVars, contextVars, callVars, registrationVars>>

ExtractNext == ExtractInboxes

SpecExtract == ExtractInit /\ [][ExtractNext]_vars

\* ------------------------------------- sendActivity, immediate, step by step
\* Every delivery the call started has ended.
AllTerminated == \A i \in DOMAIN sending.deliveries : sending.deliveries[i] # "pending"

\* The call up to its await: the actor check passed, one sendActivity of
\* send.ts is started for each extracted inbox.
SendImmediately ==
    /\ sending.pc \in {"idle", "returned"}
    /\ AllTerminated
    /\ \E given \in { a \in Activities : a.actorId # Null },
          recipients \in SendRecipientLists,
          preferSharedInbox \in BOOLEAN, immediate \in BOOLEAN :
         /\ immediate \/ queue = Null
         /\ sending' =
              [pc |-> "awaiting", result |-> "none",
               activity |-> Some(IF given.id = Null
                                 THEN [given EXCEPT !.id = randomUUID(chains + 1)]
                                 ELSE given),
               deliveries |-> [i \in extractInboxes(recipients, preferSharedInbox)
                                 |-> "pending"]]
    /\ startQueue
    /\ UNCHANGED <<backoffSchedule, onOutboxError, queue, mqPending, enqueues, mqHanded,
                   redeliveries, chains, attempts, raised, errCalls, redelivered,
                   last, lastSend>>
    /\ UNCHANGED <<inboxVars, contextVars, registrationVars, lastCall>>

\* One delivery ends: its promise is fulfilled with response.ok, or rejected
\* when the POST itself fails.
DeliveryEnds ==
    /\ \E i \in DOMAIN sending.deliveries, response \in Responses :
         /\ sending.deliveries[i] = "pending"
         /\ sending' =
              [sending EXCEPT !.deliveries[i] =
                  IF sendActivity(sending.activity[1], response) \in {"TypeError", "error"}
                  THEN "rejected" ELSE "fulfilled"]
    /\ UNCHANGED <<outboxVars, inboxVars, contextVars, registrationVars, lastCall>>

\* await Promise.all(promises): rejected as soon as one promise is rejected,
\* fulfilled once all are; then the call returns.
PromiseAllSettles ==
    /\ sending.pc = "awaiting"
    /\ IF \E i \in DOMAIN sending.deliveries : sending.deliveries[i] = "rejected"
       THEN sending' = [sending EXCEPT !.pc = "returned", !.result = "error"]
       ELSE /\ \A i \in DOMAIN sending.deliveries : sending.deliveries[i] = "fulfilled"
            /\ sending' = [sending EXCEPT !.pc = "returned", !.result = "ok"]
    /\ UNCHANGED <<outboxVars, inboxVars, contextVars, registrationVars, lastCall>>

ImmediateNext == SendImmediately \/ DeliveryEnds \/ PromiseAllSettles

SpecImmediate == SendInit /\ [][ImmediateNext]_vars

\* ------------------------------------------------- the inbox: registrations
Origin == "https://example.com"

\* The path templates of the registrations, as sequences of segments.
ActorPath == <<"users", "{handle}">>
InboxPath == <<"users", "{handle}", "inbox">>
SharedInboxPath == <<"inbox">>

\* The actor dispatcher of the application: john exists, nobody else does.
actorDispatcher(handle) == IF handle = "john" THEN Some("Person") ELSE None

\* The key pair dispatcher of the application: a pair for every handle
\* ("forAll"), or for none ("forNone").
keyPairDispatcher(handle) ==
    IF actorCallbacks.keyPairDispatcher = "forAll"
    THEN Some([publicKey |-> "publicKey3", privateKey |-> "privateKey3"])
    ELSE None

\* #actorCallbacks after the registration calls: nothing, setActorDispatcher
\* alone, or setActorDispatcher(...).setKeyPairDispatcher(...).
ActorRegistrations ==
    { NoActorCallbacks }
      \cup { [dispatcher |-> "set", keyPairDispatcher |-> k,
               authorizePredicate |-> Null] :
                k \in {Null, "forAll", "forNone"} }

\* The activity classes: Create is an Activity.
ParentClass(cls) == IF cls = "Create" THEN "Activity" ELSE Null

\* The listeners on(...) can have registered.
ListenerOf(type, listener) == [type |-> type, listener |-> listener]
ListenerRegistrations ==
    { { ListenerOf(type, "listener") : type \in types } :
        types \in SUBSET {"Create", "Activity"} }

\* The registry after setInboxListeners("/users/{handle}/inbox", "/inbox")
\* with the .on() and .onError() calls, and after setActorDispatcher when the
\* application registers one.
InboxRegistered ==
    /\ actorCallbacks \in ActorRegistrations
    /\ router = ConstructorRoutes
                  \cup { [template |-> InboxPath, name |-> "inbox"],
                         [template |-> SharedInboxPath, name |-> "sharedInbox"] }
                  \cup (IF actorCallbacks.dispatcher # Null
                        THEN { [template |-> ActorPath, name |-> "actor"] }
                        ELSE {})
    /\ inboxListeners \in ListenerRegistrations
    /\ inboxErrorHandler \in {Null, "set"}

InboxInit ==
    /\ constructor([backoffSchedule |-> <<"default">>, onOutboxError |-> Null,
                    queue |-> Null])
    /\ QueueIdle
    /\ InboxRegistered
    /\ InboxIdle
    /\ ContextNew
    /\ CallsIdle
    /\ NothingRegistered

\* ------------------------------------------------------ the inbox: requests
PathJohnInbox == <<"users", "john", "inbox">>
PathNoOneInbox == <<"users", "no-one", "inbox">>
PathSharedInbox == <<"inbox">>
PathNowhere == <<"nowhere">>
InboxPaths == {PathJohnInbox, PathNoOneInbox, PathSharedInbox}

InboxActivities == [id : InboxActivityIds, class : {"Create"}]

\* A POST: its path, its Signature header, its Content-Type, its body.
PostRequest(path, signature, contentType, body, activity) ==
    [path |-> path, signature |-> signature, contentType |-> contentType,
     body |-> body, activity |-> activity]

FirstActivity == [id |-> "https://remote.test/create/1", class |-> "Create"]

\* The POSTs received: signed activities, unsigned or wrongly signed ones with
\* and without a Content-Type, signed ones that are not an activity, and one
\* to a path nobody registered.
Requests ==
    { PostRequest(p, "valid", "application/activity+json", "activity", a) :
        p \in InboxPaths, a \in InboxActivities }
      \cup { PostRequest(p, s, c, "activity", FirstActivity) :
                p \in InboxPaths, s \in {"none", "invalid"},
                c \in {"application/activity+json", Null} }
      \cup { PostRequest(p, "valid", "application/activity+json", "malformed",
                         FirstActivity) : p \in {PathJohnInbox, PathSharedInbox} }
      \cup { PostRequest(p, "valid", Null, "activity", FirstActivity) :
                p \in {PathJohnInbox, PathSharedInbox} }
      \cup { PostRequest(PathNowhere, "none", Null, "activity", FirstActivity) }

\* What the user's callbacks do when called: the listener, the error handler.
InboxEnvs == [listener : {"returned", "threw"}, handler : {"returned", "threw"}]

\* ------------------------------------------------------------ Router.route
\* The handles and ids given to a context, and their percent-encoded form.
Handles == {"john", "john doe"}
encodeURIComponent(value) == IF value = "john doe" THEN "john%20doe" ELSE value
decodeURIComponent(value) == IF value = "john%20doe" THEN "john doe" ELSE value
IsVariable(segment) == segment \in {"{handle}", "{id}"}

matches(template, path) ==
    /\ Len(template) = Len(path)
    /\ \A i \in 1..Len(template) : IsVariable(template[i]) \/ template[i] = path[i]

\* route.values.handle ?? null
routeHandle(template, path) ==
    IF \E i \in 1..Len(template) : template[i] = "{handle}"
    THEN decodeURIComponent(path[CHOOSE i \in 1..Len(template) : template[i] = "{handle}"])
    ELSE Null

routerRoute(path) ==
    LET hits == { r \in router : matches(r.template, path) }
    IN  IF hits = {} THEN None
        ELSE LET r == CHOOSE h \in hits : TRUE
             IN  Some([name |-> r.name, handle |-> routeHandle(r.template, path)])

\* --------------------------------------------------------- createContext
\* Router.build: every variable of the template replaced by the
\* percent-encoded value; none without the route or without a value.
VariableName(segment) == IF segment = "{handle}" THEN "handle" ELSE "id"

routerBuild(name, values) ==
    IF ~(\E r \in router : r.name = name) THEN None
    ELSE LET template == (CHOOSE r \in router : r.name = name).template
         IN  IF \E i \in DOMAIN template :
                    IsVariable(template[i]) /\ VariableName(template[i]) \notin DOMAIN values
             THEN None
             ELSE Some([i \in DOMAIN template |->
                          IF IsVariable(template[i])
                          THEN encodeURIComponent(values[VariableName(template[i])])
                          ELSE template[i]])

\* new URL(path, url): the origin of the context and the path.
NewUrl(pathname) == [origin |-> Origin, pathname |-> pathname]
RECURSIVE PathString(_)
PathString(segments) ==
    IF segments = <<>> THEN ""
    ELSE "/" \o Head(segments) \o PathString(Tail(segments))
UrlString(url) == url.origin \o PathString(url.pathname)

\* A URL builder: the URL of the built path, the RouterError without it.
Thrown(error, message) == [error |-> error, message |-> message, url |-> None]
UriOf(name, values, message) ==
    LET path == routerBuild(name, values)
    IN  IF path = None THEN Thrown("RouterError", message)
        ELSE [error |-> Null, message |-> Null, url |-> Some(NewUrl(path[1]))]

\* (mutant) the handle of any route that matches, actor or not.
getHandleFromAnyUri(actorUri) ==
    IF actorUri.origin # Origin THEN Null
    ELSE LET route == routerRoute(actorUri.pathname)
         IN  IF route = None THEN Null ELSE route[1].handle

getHandleFromActorUri(actorUri) ==
    IF actorUri.origin # Origin THEN Null
    ELSE LET route == routerRoute(actorUri.pathname)
         IN  IF route = None THEN Null
             ELSE IF route[1].name # "actor" THEN Null
             ELSE route[1].handle

getNodeInfoUri == UriOf("nodeInfo", <<>>, "No NodeInfo dispatcher registered.")
\* context.getActorUri(handle)
getActorUri(handle) ==
    UriOf("actor", [handle |-> handle], "No actor dispatcher registered.")
getObjectUri(cls, values) ==
    IF objectCallbacks[cls] = None
    THEN Thrown("RouterError", "No object dispatcher registered.")
    ELSE IF \E param \in objectCallbacks[cls][1].parameters : param \notin DOMAIN values
    THEN Thrown("TypeError", "Missing parameter")
    ELSE UriOf("object:" \o cls, values, "No object dispatcher registered.")
getOutboxUri(handle) ==
    UriOf("outbox", [handle |-> handle], "No outbox dispatcher registered.")
getInboxUri(handle) ==
    IF handle = Null
    THEN UriOf("sharedInbox", <<>>, "No shared inbox path registered.")
    ELSE UriOf("inbox", [handle |-> handle], "No inbox path registered.")
getFollowingUri(handle) ==
    UriOf("following", [handle |-> handle], "No following collection path registered.")
getFollowersUri(handle) ==
    UriOf("followers", [handle |-> handle], "No followers collection path registered.")

\* getKeyPairFromHandle: throws without a key pair dispatcher and without a
\* key pair, else the key id and the private key.
KeyPairOf(error, keyId, privateKey) ==
    [error |-> error, keyId |-> keyId, privateKey |-> privateKey]

\* (mutant) the key pair of the application for every handle.
getKeyPairOfSender(handle) == KeyPairOf(Null, SenderKeyId, SenderPrivateKey)

getKeyPairFromHandle(handle) ==
    IF actorCallbacks.keyPairDispatcher = Null
    THEN KeyPairOf("No actor key pair dispatcher registered.", Null, Null)
    ELSE IF keyPairDispatcher(handle) = None
    THEN KeyPairOf("No key pair found for actor", Null, Null)
    ELSE KeyPairOf(Null, UrlString(getActorUri(handle).url[1]) \o "#main-key",
                   keyPairDispatcher(handle)[1].privateKey)

\* The loaders: the registry default, and the one authenticated with a key.
DefaultDocumentLoader == "default"
getAuthenticatedDocumentLoader(pair) == "authenticated:" \o pair.keyId

\* (mutant) the loader of the registry, whoever the actor is.
getDocumentLoaderOfRegistry(handle) ==
    [error |-> Null, loader |-> DefaultDocumentLoader]

\* context.getDocumentLoader({handle}): rejects when the key pair cannot be had.
getDocumentLoader(handle) ==
    LET pair == getKeyPairFromHandle(handle)
    IN  IF pair.error # Null THEN [error |-> pair.error, loader |-> Null]
        ELSE [error |-> Null, loader |-> getAuthenticatedDocumentLoader(pair)]

\* ------------------------------------------------------- Federation.fetch
\* Default prefix of the idempotence keys.
activityIdempotence == <<"_fedify", "activityIdempotence">>

\* (mutant) the parameters of handleInbox without the error handler.
handleInboxParametersWithoutErrorHandler(route, documentLoader) ==
    [handle |-> route.handle, documentLoader |-> documentLoader,
     kvPrefix |-> activityIdempotence,
     actorDispatcher |-> actorCallbacks.dispatcher,
     inboxListeners |-> inboxListeners, inboxErrorHandler |-> Null]

\* The parameters fetch hands to handleInbox.
handleInboxParameters(route, documentLoader) ==
    [handle |-> route.handle, documentLoader |-> documentLoader,
     kvPrefix |-> activityIdempotence,
     actorDispatcher |-> actorCallbacks.dispatcher,
     inboxListeners |-> inboxListeners, inboxErrorHandler |-> inboxErrorHandler]

\* How a fetch call ends: with a Response, or rejected with an error.
Responded(request, status) ==
    [NoFetch EXCEPT !.request = Some(request), !.outcome = "response",
                    !.status = status]
Rejected(request, error) ==
    [NoFetch EXCEPT !.request = Some(request), !.outcome = "exception",
                    !.error = error]

\* fetch up to the call of handleInbox: the route, and for a personal inbox
\* the context with the actor's authenticated loader. "handleInbox" with the
\* parameters, or the end of the call.
fetchRoute(request) ==
    LET found == routerRoute(request.path)
    IN  IF found = None
        THEN [next |-> "end", end |-> Responded(request, 404), params |-> None]
        ELSE LET route == found[1]
             IN  IF route.name = "inbox"
                 THEN LET got == getDocumentLoader(route.handle)
                      IN  IF got.error # Null
                          THEN [next |-> "end", end |-> Rejected(request, got.error),
                                params |-> None]
                          ELSE [next |-> "handleInbox", end |-> NoFetch,
                                params |-> Some(handleInboxParameters(route, got.loader))]
                 ELSE IF route.name = "sharedInbox"
                 THEN [next |-> "handleInbox", end |-> NoFetch,
                       params |-> Some(handleInboxParameters(route, DefaultDocumentLoader))]
                 ELSE [next |-> "end", end |-> Responded(request, 404), params |-> None]

\* ------------------------------------------------------------ handleInbox
\* Before the store is looked at: no actor dispatcher or no such actor is
\* 404, a missing or invalid signature 401, a body that is not an activity
\* 400, the parser's failure handed to the error handler. Status 0: go on.
handleInboxReceive(request, p, env) ==
    IF p.actorDispatcher = Null THEN Responded(request, 404)
    ELSE IF p.handle # Null /\ actorDispatcher(p.handle) = None
    THEN Responded(request, 404)
    ELSE IF request.signature # "valid" THEN Responded(request, 401)
    ELSE IF request.contentType
              \notin {"application/activity+json", "application/ld+json"}
    THEN Responded(request, 400)
    ELSE IF request.body # "activity"
    THEN [Responded(request, 400) EXCEPT
            !.handler = IF p.inboxErrorHandler # Null THEN env.handler ELSE "notCalled",
            !.handlerCalls = IF p.inboxErrorHandler # Null THEN 1 ELSE 0,
            !.handlerError = IF p.inboxErrorHandler # Null THEN "parseError" ELSE Null]
    ELSE NoFetch

\* The idempotence key of an activity.
idempotenceKey(p, activity) == Append(p.kvPrefix, activity.id)

\* The store's contract: get and set, each one operation.
kvGet(store, key) == key \in store
kvSet(store, key) == store \cup {key}

\* The listener of the first class of the activity's chain that has one,
\* from the most specific class up to Activity; Null when there is none.
RECURSIVE lookupListener(_, _)
lookupListener(listeners, cls) ==
    IF cls = Null THEN Null
    ELSE IF \E l \in listeners : l.type = cls THEN cls
    ELSE lookupListener(listeners, ParentClass(cls))

\* Dispatch: no listener is 202; a listener that throws is 500 after the
\* error handler, whose own failure is swallowed; else 202.
handleInboxDispatch(request, p, env) ==
    LET cls == lookupListener(p.inboxListeners, request.activity.class)
        called == p.inboxErrorHandler # Null
    IN  IF cls = Null THEN Responded(request, 202)
        ELSE IF env.listener = "threw"
        THEN [Responded(request, 500) EXCEPT
                !.listener = "threw", !.listenerClass = cls,
                !.loader = p.documentLoader,
                !.handler = IF called THEN env.handler ELSE "notCalled",
                !.handlerCalls = IF called THEN 1 ELSE 0,
                !.handlerError = IF called THEN "listenerError" ELSE Null]
        ELSE [Responded(request, 202) EXCEPT
                !.listener = "returned", !.listenerClass = cls,
                !.loader = p.documentLoader]

\* The activity was processed before.
AlreadyProcessed(request) == [Responded(request, 202) EXCEPT !.duplicate = TRUE]

\* The listener invocations after a call ended.
Counted(run) ==
    IF run.listener = "notCalled" THEN listenerCalls
    ELSE [listenerCalls EXCEPT ![run.request[1].activity.id] = @ + 1]

\* ----------------------------------------------- fetch, one call at a time
\* A whole fetch call of a POST, from the route to the response.
fetch(request, env) ==
    LET routed == fetchRoute(request)
    IN  IF routed.next = "end"
        THEN lastFetch' = routed.end /\ UNCHANGED <<kv, listenerCalls>>
        ELSE LET p == routed.params[1]
                 received == handleInboxReceive(request, p, env)
                 key == idempotenceKey(p, request.activity)
             IN  IF received # NoFetch
                 THEN lastFetch' = received /\ UNCHANGED <<kv, listenerCalls>>
                 ELSE IF kvGet(kv, key)
                 THEN /\ lastFetch' = AlreadyProcessed(request)
                      /\ UNCHANGED <<kv, listenerCalls>>
                 ELSE LET run == handleInboxDispatch(request, p, env)
                      IN  /\ kv' = kvSet(kv, key)
                          /\ lastFetch' = run
                          /\ listenerCalls' = Counted(run)

Fetch ==
    /\ \E request \in Requests, env \in InboxEnvs : fetch(request, env)
    /\ UNCHANGED <<registryVars, inflight, outboxVars, contextVars, callVars, registrationVars>>

InboxNext == Fetch

SpecInbox == InboxInit /\ [][InboxNext]_vars

\* ------------------------------------------- fetch, calls that interleave
\* The POSTs of the concurrent calls: the signed activities among them are
\* POSTs of one activity to one inbox, john's.
ConcurrentRequests ==
    { r \in Requests :
        (r.signature = "valid" /\ r.body = "activity" /\ r.contentType # Null)
          => (r.activity = FirstActivity /\ r.path = PathJohnInbox) }

\* A call starts and runs up to its first look at the store.
Receive(s) ==
    /\ inflight[s] = Idle
    /\ \E request \in ConcurrentRequests, env \in InboxEnvs :
         LET routed == fetchRoute(request)
         IN  IF routed.next = "end"
             THEN lastFetch' = routed.end /\ UNCHANGED inflight
             ELSE LET p == routed.params[1]
                      received == handleInboxReceive(request, p, env)
                  IN  IF received # NoFetch
                      THEN lastFetch' = received /\ UNCHANGED inflight
                      ELSE /\ inflight' = [inflight EXCEPT ![s] =
                                  [pc |-> "get", request |-> Some(request),
                                   params |-> Some(p)]]
                           /\ UNCHANGED lastFetch
    /\ UNCHANGED <<registryVars, kv, listenerCalls, outboxVars, contextVars, callVars, registrationVars>>

\* The call reads the idempotence key: present, the activity was processed.
Get(s) ==
    /\ inflight[s].pc = "get"
    /\ LET request == inflight[s].request[1]
           p == inflight[s].params[1]
       IN  IF kvGet(kv, idempotenceKey(p, request.activity))
           THEN /\ lastFetch' = AlreadyProcessed(request)
                /\ inflight' = [inflight EXCEPT ![s] = Idle]
           ELSE /\ inflight' = [inflight EXCEPT ![s].pc = "set"]
                /\ UNCHANGED lastFetch
    /\ UNCHANGED <<registryVars, kv, listenerCalls, outboxVars, contextVars, callVars, registrationVars>>

\* The call writes the idempotence key it found absent.
Set(s) ==
    /\ inflight[s].pc = "set"
    /\ LET request == inflight[s].request[1]
           p == inflight[s].params[1]
       IN  kv' = kvSet(kv, idempotenceKey(p, request.activity))
    /\ inflight' = [inflight EXCEPT ![s].pc = "dispatch"]
    /\ UNCHANGED <<registryVars, listenerCalls, lastFetch, outboxVars, contextVars, callVars, registrationVars>>

\* The call dispatches the activity to its listener and responds.
Dispatch(s) ==
    /\ inflight[s].pc = "dispatch"
    /\ \E env \in InboxEnvs :
         LET run == handleInboxDispatch(inflight[s].request[1],
                                        inflight[s].params[1], env)
         IN  /\ lastFetch' = run
             /\ listenerCalls' = Counted(run)
    /\ inflight' = [inflight EXCEPT ![s] = Idle]
    /\ UNCHANGED <<registryVars, kv, outboxVars, contextVars, callVars, registrationVars>>

\* The registry of the concurrent calls: john with his key pair, a Create
\* listener, with or without an error handler.
ConcurrentInit ==
    /\ InboxInit
    /\ actorCallbacks = [dispatcher |-> "set", keyPairDispatcher |-> "forAll",
                         authorizePredicate |-> Null]
    /\ inboxListeners = {ListenerOf("Create", "listener")}

ConcurrentNext ==
    \E s \in Slots : Receive(s) \/ Get(s) \/ Set(s) \/ Dispatch(s)

SpecInboxConcurrent == ConcurrentInit /\ [][ConcurrentNext]_vars

\* The calls on the context are numbered in the order they start.
NextCall(c) ==
    /\ calls[c] = NoCall
    /\ \A b \in ContextCalls : b < c => calls[b] # NoCall

\* getSignedKey(), up to its await: the memoized value, or verify() started.
getSignedKeyStart(c, op) ==
    IF signedKey # Undefined
    THEN /\ calls' = [calls EXCEPT ![c] =
                        [op |-> op, pc |-> IF op = "getSignedKey" THEN "done" ELSE "awaitKey",
                         key |-> signedKey]]
         /\ returnedKeys' = IF op = "getSignedKey" THEN returnedKeys \cup {signedKey}
                            ELSE returnedKeys
         /\ UNCHANGED verifications
    ELSE /\ calls' = [calls EXCEPT ![c] = [op |-> op, pc |-> "verify", key |-> Undefined]]
         /\ verifications' = verifications + 1
         /\ UNCHANGED returnedKeys

\* A call of getSignedKey() starts.
CallGetSignedKey(c) ==
    /\ NextCall(c)
    /\ getSignedKeyStart(c, "getSignedKey")
    /\ UNCHANGED <<signedKey, signedKeyOwner, ownerLookups, returnedOwners>>
    /\ UNCHANGED <<outboxVars, inboxVars, callVars, registrationVars>>

\* verify() answers a suspended getSignedKey(): signedKey = await verify(...).
VerifyReturns(c) ==
    /\ calls[c].pc = "verify"
    /\ \E v \in VerifyResults(c) :
         /\ signedKey' = v
         /\ IF calls[c].op = "getSignedKey"
            THEN /\ calls' = [calls EXCEPT ![c].pc = "done", ![c].key = v]
                 /\ returnedKeys' = returnedKeys \cup {v}
            ELSE /\ calls' = [calls EXCEPT ![c].pc = "awaitKey", ![c].key = v]
                 /\ UNCHANGED returnedKeys
    /\ UNCHANGED <<signedKeyOwner, verifications, ownerLookups, returnedOwners>>
    /\ UNCHANGED <<outboxVars, inboxVars, callVars, registrationVars>>

\* A call of getSignedKeyOwner() starts: the memoized owner, or it awaits
\* this.getSignedKey().
CallGetSignedKeyOwner(c) ==
    /\ NextCall(c)
    /\ IF signedKeyOwner # Undefined
       THEN /\ calls' = [calls EXCEPT ![c] =
                           [op |-> "getSignedKeyOwner", pc |-> "done", key |-> Undefined]]
            /\ returnedOwners' = returnedOwners \cup {signedKeyOwner}
            /\ UNCHANGED <<verifications, returnedKeys>>
       ELSE /\ getSignedKeyStart(c, "getSignedKeyOwner")
            /\ UNCHANGED returnedOwners
    /\ UNCHANGED <<signedKey, signedKeyOwner, ownerLookups>>
    /\ UNCHANGED <<outboxVars, inboxVars, callVars, registrationVars>>

\* getSignedKeyOwner() resumes with the key: null is memoized as the owner,
\* else getKeyOwner() is started.
OwnerResumes(c) ==
    /\ calls[c].pc = "awaitKey"
    /\ IF calls[c].key = NullValue
       THEN /\ signedKeyOwner' = NullValue
            /\ returnedOwners' = returnedOwners \cup {NullValue}
            /\ calls' = [calls EXCEPT ![c].pc = "done"]
            /\ UNCHANGED ownerLookups
       ELSE /\ ownerLookups' = ownerLookups + 1
            /\ calls' = [calls EXCEPT ![c].pc = "getKeyOwner"]
            /\ UNCHANGED <<signedKeyOwner, returnedOwners>>
    /\ UNCHANGED <<signedKey, verifications, returnedKeys>>
    /\ UNCHANGED <<outboxVars, inboxVars, callVars, registrationVars>>

\* getKeyOwner() answers: signedKeyOwner = await getKeyOwner(...).
GetKeyOwnerReturns(c) ==
    /\ calls[c].pc = "getKeyOwner"
    /\ \E o \in KeyOwnerResults(c) :
         /\ signedKeyOwner' = o
         /\ returnedOwners' = returnedOwners \cup {o}
    /\ calls' = [calls EXCEPT ![c].pc = "done"]
    /\ UNCHANGED <<signedKey, verifications, ownerLookups, returnedKeys>>
    /\ UNCHANGED <<outboxVars, inboxVars, callVars, registrationVars>>

ContextInit ==
    /\ constructor([backoffSchedule |-> <<"default">>, onOutboxError |-> Null,
                    queue |-> Null])
    /\ QueueIdle
    /\ RegistryIdle
    /\ InboxIdle
    /\ ContextNew
    /\ CallsIdle
    /\ NothingRegistered

ContextNext ==
    \E c \in ContextCalls :
        \/ CallGetSignedKey(c)
        \/ VerifyReturns(c)
        \/ CallGetSignedKeyOwner(c)
        \/ OwnerResumes(c)
        \/ GetKeyOwnerReturns(c)

SpecContext == ContextInit /\ [][ContextNext]_vars

\* ------------------------------------------------------- the registrations
\* Registration calls made on one Federation.
MaxRegistrations == 2

\* Router.has, Router.add: add is called for a name that is not there yet and
\* returns the variables of the template.
routerHas(name) == \E r \in router : r.name = name
routerAdd(routes, template, name) == routes \cup { [template |-> template, name |-> name] }
variablesOf(template) ==
    { IF template[i] = "{handle}" THEN "handle" ELSE "id" :
        i \in { j \in DOMAIN template : IsVariable(template[j]) } }

\* The paths and the dispatchers of the registration calls: two paths with the
\* one variable {handle}, one with another variable, one without variable,
\* one with two variables.
PathsOf(suffix) ==
    { <<"users", "{handle}">> \o suffix, <<"u", "{handle}">> \o suffix,
      <<"users", "{id}">> \o suffix, <<"all">> \o suffix,
      <<"users", "{handle}", "{id}">> \o suffix }
Dispatchers == {"set", "another"}
SharedInboxPaths == {None, Some(SharedInboxPath), Some(<<"inbox", "{id}">>)}

Registration(name, path, dispatcher, result, message) ==
    [name |-> name, path |-> path, sharedInboxPath |-> None, dispatcher |-> dispatcher,
     result |-> result, message |-> message]

\* The route registered under a name, if any.
RouteOf(name) == { r.template : r \in { q \in router : q.name = name } }

\* (mutant) a second call replaces the dispatcher of the first.
setNodeInfoDispatcherAgain(path, dispatcher) ==
    IF routerHas("nodeInfo")
    THEN /\ nodeInfoDispatcher' = dispatcher
         /\ lastRegistration' = Registration("nodeInfo", path, dispatcher, "ok", Null)
         /\ UNCHANGED <<router, registered>>
    ELSE /\ router' = routerAdd(router, path, "nodeInfo")
         /\ IF variablesOf(path) # {}
            THEN /\ lastRegistration' =
                      Registration("nodeInfo", path, dispatcher, "RouterError",
                                   "Path for NodeInfo dispatcher must have no variables.")
                 /\ UNCHANGED <<nodeInfoDispatcher, registered>>
            ELSE /\ nodeInfoDispatcher' = dispatcher
                 /\ lastRegistration' = Registration("nodeInfo", path, dispatcher, "ok", Null)
                 /\ registered' = registered \cup {lastRegistration'}

setNodeInfoDispatcher(path, dispatcher) ==
    IF routerHas("nodeInfo")
    THEN /\ lastRegistration' =
              Registration("nodeInfo", path, dispatcher, "RouterError",
                           "NodeInfo dispatcher already set.")
         /\ UNCHANGED <<router, nodeInfoDispatcher, registered>>
    ELSE /\ router' = routerAdd(router, path, "nodeInfo")
         /\ IF variablesOf(path) # {}
            THEN /\ lastRegistration' =
                      Registration("nodeInfo", path, dispatcher, "RouterError",
                                   "Path for NodeInfo dispatcher must have no variables.")
                 /\ UNCHANGED <<nodeInfoDispatcher, registered>>
            ELSE /\ nodeInfoDispatcher' = dispatcher
                 /\ lastRegistration' = Registration("nodeInfo", path, dispatcher, "ok", Null)
                 /\ registered' = registered \cup {lastRegistration'}

setActorDispatcher(path, dispatcher) ==
    IF routerHas("actor")
    THEN /\ lastRegistration' =
              Registration("actor", path, dispatcher, "RouterError",
                           "Actor dispatcher already set.")
         /\ UNCHANGED <<router, actorCallbacks, registered>>
    ELSE /\ router' = routerAdd(router, path, "actor")
         /\ IF variablesOf(path) # {"handle"}
            THEN /\ lastRegistration' =
                      Registration("actor", path, dispatcher, "RouterError",
                                   "Path for actor dispatcher must have one variable: {handle}")
                 /\ UNCHANGED <<actorCallbacks, registered>>
            ELSE /\ actorCallbacks' = [dispatcher |-> dispatcher,
                                       keyPairDispatcher |-> Null,
                                       authorizePredicate |-> Null]
                 /\ lastRegistration' = Registration("actor", path, dispatcher, "ok", Null)
                 /\ registered' = registered \cup {lastRegistration'}

\* routeName = `object:${cls.typeId.href}`
objectRouteName(cls) == "object:" \o cls

setObjectDispatcher(cls, path, dispatcher) ==
    IF routerHas(objectRouteName(cls))
    THEN /\ lastRegistration' =
              Registration(objectRouteName(cls), path, dispatcher, "RouterError",
                           "Object dispatcher already set.")
         /\ UNCHANGED <<router, objectCallbacks, registered>>
    ELSE /\ router' = routerAdd(router, path, objectRouteName(cls))
         /\ IF Cardinality(variablesOf(path)) < 1
            THEN /\ lastRegistration' =
                      Registration(objectRouteName(cls), path, dispatcher, "RouterError",
                                   "Path for object dispatcher must have at least one variable.")
                 /\ UNCHANGED <<objectCallbacks, registered>>
            ELSE /\ objectCallbacks' =
                      [objectCallbacks EXCEPT ![cls] =
                          Some([dispatcher |-> dispatcher, parameters |-> variablesOf(path)])]
                 /\ lastRegistration' =
                      Registration(objectRouteName(cls), path, dispatcher, "ok", Null)
                 /\ registered' = registered \cup {lastRegistration'}

\* (mutant) any one variable will do for the outbox path.
setOutboxDispatcherAnyVariable(path, dispatcher) ==
    IF routerHas("outbox")
    THEN /\ lastRegistration' =
              Registration("outbox", path, dispatcher, "RouterError",
                           "Outbox dispatcher already set.")
         /\ UNCHANGED <<router, outboxCallbacks, registered>>
    ELSE /\ router' = routerAdd(router, path, "outbox")
         /\ IF Cardinality(variablesOf(path)) # 1
            THEN /\ lastRegistration' =
                      Registration("outbox", path, dispatcher, "RouterError",
                                   "Path for outbox dispatcher must have one variable: {handle}")
                 /\ UNCHANGED <<outboxCallbacks, registered>>
            ELSE /\ outboxCallbacks' = Some([dispatcher |-> dispatcher])
                 /\ lastRegistration' = Registration("outbox", path, dispatcher, "ok", Null)
                 /\ registered' = registered \cup {lastRegistration'}

setOutboxDispatcher(path, dispatcher) ==
    IF routerHas("outbox")
    THEN /\ lastRegistration' =
              Registration("outbox", path, dispatcher, "RouterError",
                           "Outbox dispatcher already set.")
         /\ UNCHANGED <<router, outboxCallbacks, registered>>
    ELSE /\ router' = routerAdd(router, path, "outbox")
         /\ IF variablesOf(path) # {"handle"}
            THEN /\ lastRegistration' =
                      Registration("outbox", path, dispatcher, "RouterError",
                                   "Path for outbox dispatcher must have one variable: {handle}")
                 /\ UNCHANGED <<outboxCallbacks, registered>>
            ELSE /\ outboxCallbacks' = Some([dispatcher |-> dispatcher])
                 /\ lastRegistration' = Registration("outbox", path, dispatcher, "ok", Null)
                 /\ registered' = registered \cup {lastRegistration'}

setFollowingDispatcher(path, dispatcher) ==
    IF routerHas("following")
    THEN /\ lastRegistration' =
              Registration("following", path, dispatcher, "RouterError",
                           "Following collection dispatcher already set.")
         /\ UNCHANGED <<router, followingCallbacks, registered>>
    ELSE /\ router' = routerAdd(router, path, "following")
         /\ IF variablesOf(path) # {"handle"}
            THEN /\ lastRegistration' =
                      Registration("following", path, dispatcher, "RouterError",
                                   "Path for following collection dispatcher must have one variable: {handle}")
                 /\ UNCHANGED <<followingCallbacks, registered>>
            ELSE /\ followingCallbacks' = Some([dispatcher |-> dispatcher])
                 /\ lastRegistration' = Registration("following", path, dispatcher, "ok", Null)
                 /\ registered' = registered \cup {lastRegistration'}

setFollowersDispatcher(path, dispatcher) ==
    IF routerHas("followers")
    THEN /\ lastRegistration' =
              Registration("followers", path, dispatcher, "RouterError",
                           "Followers collection dispatcher already set.")
         /\ UNCHANGED <<router, followersCallbacks, registered>>
    ELSE /\ router' = routerAdd(router, path, "followers")
         /\ IF variablesOf(path) # {"handle"}
            THEN /\ lastRegistration' =
                      Registration("followers", path, dispatcher, "RouterError",
                                   "Path for followers collection dispatcher must have one variable: {handle}")
                 /\ UNCHANGED <<followersCallbacks, registered>>
            ELSE /\ followersCallbacks' = Some([dispatcher |-> dispatcher])
                 /\ lastRegistration' = Registration("followers", path, dispatcher, "ok", Null)
                 /\ registered' = registered \cup {lastRegistration'}

\* setInboxListeners: the inbox route, then the shared inbox route when a
\* path for it is given.
setInboxListeners(inboxPath, sharedInboxPath) ==
    LET call(result, message) ==
            [Registration("inbox", inboxPath, Null, result, message)
                EXCEPT !.sharedInboxPath = sharedInboxPath]
    IN  IF routerHas("inbox")
        THEN /\ lastRegistration' = call("RouterError", "Inbox already set.")
             /\ UNCHANGED <<router, registered>>
        ELSE IF variablesOf(inboxPath) # {"handle"}
        THEN /\ router' = routerAdd(router, inboxPath, "inbox")
             /\ lastRegistration' =
                  call("RouterError", "Path for inbox must have one variable: {handle}")
             /\ UNCHANGED registered
        ELSE IF sharedInboxPath = None
        THEN /\ router' = routerAdd(router, inboxPath, "inbox")
             /\ lastRegistration' = call("ok", Null)
             /\ registered' = registered \cup {lastRegistration'}
        ELSE /\ router' = routerAdd(routerAdd(router, inboxPath, "inbox"),
                                    sharedInboxPath[1], "sharedInbox")
             /\ IF variablesOf(sharedInboxPath[1]) # {}
                THEN /\ lastRegistration' =
                          call("RouterError", "Path for shared inbox must have no variables.")
                     /\ UNCHANGED registered
                ELSE /\ lastRegistration' = call("ok", Null)
                     /\ registered' = registered \cup {lastRegistration'}

\* What no registration call touches.
RegistrationFrame ==
    UNCHANGED <<outboxVars, inboxListeners, inboxErrorHandler, kv, listenerCalls,
                lastFetch, inflight, contextVars, callVars>>

NodeInfoPaths == { <<"nodeinfo", "2.1">>, <<"ni">>, <<"nodeinfo", "{id}">> }

SetNodeInfoDispatcherFrom(paths, dispatchers) ==
    /\ registrations < MaxRegistrations
    /\ \E path \in paths, dispatcher \in dispatchers :
         setNodeInfoDispatcher(path, dispatcher)
    /\ registrations' = registrations + 1
    /\ UNCHANGED <<actorCallbacks, objectCallbacks, outboxCallbacks,
                   followingCallbacks, followersCallbacks>>
    /\ RegistrationFrame

SetNodeInfoDispatcher == SetNodeInfoDispatcherFrom(NodeInfoPaths, Dispatchers)

SetActorDispatcherFrom(paths, dispatchers) ==
    /\ registrations < MaxRegistrations
    /\ \E path \in paths, dispatcher \in dispatchers :
         setActorDispatcher(path, dispatcher)
    /\ registrations' = registrations + 1
    /\ UNCHANGED <<nodeInfoDispatcher, objectCallbacks, outboxCallbacks,
                   followingCallbacks, followersCallbacks>>
    /\ RegistrationFrame

SetActorDispatcher == SetActorDispatcherFrom(PathsOf(<<>>), Dispatchers)

SetObjectDispatcherFrom(paths, dispatchers) ==
    /\ registrations < MaxRegistrations
    /\ \E cls \in ObjectClasses, path \in paths, dispatcher \in dispatchers :
         setObjectDispatcher(cls, path, dispatcher)
    /\ registrations' = registrations + 1
    /\ UNCHANGED <<actorCallbacks, nodeInfoDispatcher, outboxCallbacks,
                   followingCallbacks, followersCallbacks>>
    /\ RegistrationFrame

SetObjectDispatcher == SetObjectDispatcherFrom(PathsOf(<<"objects">>), Dispatchers)

SetOutboxDispatcherFrom(paths, dispatchers) ==
    /\ registrations < MaxRegistrations
    /\ \E path \in paths, dispatcher \in dispatchers :
         setOutboxDispatcher(path, dispatcher)
    /\ registrations' = registrations + 1
    /\ UNCHANGED <<actorCallbacks, nodeInfoDispatcher, objectCallbacks,
                   followingCallbacks, followersCallbacks>>
    /\ RegistrationFrame

SetOutboxDispatcher == SetOutboxDispatcherFrom(PathsOf(<<"outbox">>), Dispatchers)

SetFollowingDispatcherFrom(paths, dispatchers) ==
    /\ registrations < MaxRegistrations
    /\ \E path \in paths, dispatcher \in dispatchers :
         setFollowingDispatcher(path, dispatcher)
    /\ registrations' = registrations + 1
    /\ UNCHANGED <<actorCallbacks, nodeInfoDispatcher, objectCallbacks,
                   outboxCallbacks, followersCallbacks>>
    /\ RegistrationFrame

SetFollowingDispatcher == SetFollowingDispatcherFrom(PathsOf(<<"following">>), Dispatchers)

SetFollowersDispatcherFrom(paths, dispatchers) ==
    /\ registrations < MaxRegistrations
    /\ \E path \in paths, dispatcher \in dispatchers :
         setFollowersDispatcher(path, dispatcher)
    /\ registrations' = registrations + 1
    /\ UNCHANGED <<actorCallbacks, nodeInfoDispatcher, objectCallbacks,
                   outboxCallbacks, followingCallbacks>>
    /\ RegistrationFrame

SetFollowersDispatcher == SetFollowersDispatcherFrom(PathsOf(<<"followers">>), Dispatchers)

SetInboxListenersFrom(inboxPaths, sharedInboxPaths) ==
    /\ registrations < MaxRegistrations
    /\ \E inboxPath \in inboxPaths, sharedInboxPath \in sharedInboxPaths :
         setInboxListeners(inboxPath, sharedInboxPath)
    /\ registrations' = registrations + 1
    /\ UNCHANGED <<actorCallbacks, nodeInfoDispatcher, objectCallbacks,
                   outboxCallbacks, followingCallbacks, followersCallbacks>>
    /\ RegistrationFrame

SetInboxListeners == SetInboxListenersFrom(PathsOf(<<"inbox">>), SharedInboxPaths)

RegistrationInit == SendInit

RegistrationNext ==
    \/ SetNodeInfoDispatcher
    \/ SetActorDispatcher
    \/ SetObjectDispatcher
    \/ SetOutboxDispatcher
    \/ SetFollowingDispatcher
    \/ SetFollowersDispatcher
    \/ SetInboxListeners

SpecRegistration == RegistrationInit /\ [][RegistrationNext]_vars

\* ------------------------------------------- the lifetime of one Federation
\* createContext: a new context, its signed key cells undefined.
CreateContext ==
    /\ signedKey' = Undefined
    /\ signedKeyOwner' = Undefined
    /\ verifications' = 0
    /\ ownerLookups' = 0
    /\ calls' = [c \in ContextCalls |-> NoCall]
    /\ returnedKeys' = {}
    /\ returnedOwners' = {}
    /\ UNCHANGED <<outboxVars, inboxVars, callVars, registrationVars>>

\* The registrations of an application that serves an actor and its inbox.
RegisterActor ==
    /\ registrations < MaxRegistrations
    /\ setActorDispatcher(ActorPath, "set")
    /\ registrations' = registrations + 1
    /\ UNCHANGED <<nodeInfoDispatcher, objectCallbacks, outboxCallbacks,
                   followingCallbacks, followersCallbacks>>
    /\ RegistrationFrame

RegisterInbox ==
    /\ registrations < MaxRegistrations
    /\ setInboxListeners(InboxPath, Some(SharedInboxPath))
    /\ registrations' = registrations + 1
    /\ UNCHANGED <<actorCallbacks, nodeInfoDispatcher, objectCallbacks,
                   outboxCallbacks, followingCallbacks, followersCallbacks>>
    /\ RegistrationFrame

\* (mutant) a fetch that drops the inbox error handler of the registry.
FetchPostDroppingHandler ==
    /\ \E request \in { r \in Requests :
                           /\ r.activity = FirstActivity
                           /\ r.signature = "valid"
                           /\ r.body = "activity"
                           /\ r.contentType # Null } :
         fetch(request, [listener |-> "returned", handler |-> "returned"])
    /\ inboxErrorHandler' = Null
    /\ UNCHANGED <<actorCallbacks, router, inboxListeners, inflight, outboxVars,
                   contextVars, callVars, registrationVars>>

\* A POST to john's inbox, to the shared inbox, to no route.
FetchPost ==
    /\ \E request \in { r \in Requests :
                           /\ r.activity = FirstActivity
                           /\ r.signature = "valid"
                           /\ r.body = "activity"
                           /\ r.contentType # Null } \cup
                        { PostRequest(PathNowhere, "none", Null, "activity", FirstActivity) } :
         fetch(request, [listener |-> "returned", handler |-> "returned"])
    /\ UNCHANGED <<registryVars, inflight, outboxVars, contextVars, callVars,
                   registrationVars>>

\* sendActivity with or without an actor, to no recipient or to one, queued
\* or immediate.
SendToOne ==
    /\ \E given \in { a \in Activities : a.id # Null },
          recipients \in {<<>>, <<ActorA>>}, immediate \in BOOLEAN :
         Federation_sendActivity(Sender, given, recipients, FALSE, immediate,
                                 [i \in extractInboxes(recipients, FALSE) |-> "2xx"])
    /\ UNCHANGED <<backoffSchedule, onOutboxError, queue, mqHanded, redeliveries,
                   attempts, raised, errCalls, redelivered, last>>
    /\ UNCHANGED <<inboxVars, contextVars, callVars, registrationVars>>

LifetimeNext ==
    \/ RegisterActor
    \/ RegisterInbox
    \/ CreateContext
    \/ FetchPost
    \/ SendToOne

SpecLifetime == SendInit /\ [][LifetimeNext]_vars

\* ------------------------------------------------ RequestContext.getObject
\* What a getObject call settles with, and whether the dispatcher was invoked.
ObjectResult(error, message, dispatched) ==
    [error |-> error, message |-> message, dispatched |-> dispatched]

\* (mutant) getObject that hands any values to the dispatcher.
getObjectUnchecked(cls, values) ==
    IF objectCallbacks[cls] = None
    THEN ObjectResult("Error", "No object dispatcher registered.", FALSE)
    ELSE ObjectResult(Null, Null, TRUE)

\* reqCtx.getObject(cls, values)
getObject(cls, values) ==
    IF objectCallbacks[cls] = None
    THEN ObjectResult("Error", "No object dispatcher registered.", FALSE)
    ELSE IF \E param \in objectCallbacks[cls][1].parameters : param \notin DOMAIN values
    THEN ObjectResult("TypeError", "Missing parameter", FALSE)
    ELSE ObjectResult(Null, Null, TRUE)

\* The values of the calls: the handle alone, the id alone, both.
ObjectValues == { [handle |-> "john"], [id |-> "1"], [handle |-> "john", id |-> "1"] }

CallGetObject ==
    /\ \E cls \in ObjectClasses, values \in ObjectValues :
         lastCall' = [method |-> "getObject", args |-> <<cls, values>>,
                      result |-> getObject(cls, values)]
    /\ UNCHANGED <<outboxVars, inboxVars, contextVars, registrationVars, sending>>

\* getObjectUri invokes no dispatcher.
CallGetObjectUri ==
    /\ \E cls \in ObjectClasses, values \in ObjectValues :
         LET uri == getObjectUri(cls, values)
         IN  lastCall' = [method |-> "getObjectUri", args |-> <<cls, values>>,
                          result |-> ObjectResult(uri.error, uri.message, FALSE)]
    /\ UNCHANGED <<outboxVars, inboxVars, contextVars, registrationVars, sending>>

\* Paths with both variables, with one, with none.
ObjectPaths ==
    { <<"users", "{handle}", "notes", "{id}">>, <<"notes", "{id}">>, <<"notes">> }

ObjectsNext ==
    \/ SetObjectDispatcherFrom(ObjectPaths, {"set"})
    \/ CallGetObject
    \/ CallGetObjectUri

SpecObjects == ContextInit /\ [][ObjectsNext]_vars

\* -------------------------------------------------- Context.sendActivity
\* What the promise of a sendActivity call settles with.
SendResult(error) == [error |-> error]

\* context.sendActivity(sender, recipients, activity, options): the key pair
\* of a {handle} sender first, then Federation.sendActivity.
Context_sendActivity(sender, given, recipients, preferSharedInbox, immediate, responses) ==
    LET call == [method |-> "sendActivity",
                 args |-> <<sender, given, recipients, preferSharedInbox, immediate>>]
        senderPair == IF "handle" \in DOMAIN sender
                      THEN getKeyPairFromHandle(sender.handle)
                      ELSE KeyPairOf(Null, sender.keyId, sender.privateKey)
    IN  IF senderPair.error # Null
        THEN /\ lastCall' = [method |-> call.method, args |-> call.args,
                              result |-> SendResult(senderPair.error)]
             /\ UNCHANGED <<lastSend, listenCalls, queueStarted, mqPending, enqueues,
                            chains>>
        ELSE /\ Federation_sendActivity([keyId |-> senderPair.keyId,
                                          privateKey |-> senderPair.privateKey],
                                         given, recipients, preferSharedInbox,
                                         immediate, responses)
             /\ lastCall' = [method |-> call.method, args |-> call.args,
                              result |-> SendResult(IF lastSend'.result = "ok" THEN Null
                                                    ELSE lastSend'.result)]

\* The senders: a handle, or a key pair of the application's own.
Senders == { [handle |-> h] : h \in Handles } \cup { Sender }

ContextSendActivity ==
    /\ \E sender \in Senders, given \in Activities,
          recipients \in {<<>>, <<ActorA>>}, immediate \in BOOLEAN :
         Context_sendActivity(sender, given, recipients, FALSE, immediate,
                              [i \in extractInboxes(recipients, FALSE) |-> "2xx"])
    /\ UNCHANGED <<backoffSchedule, onOutboxError, queue, mqHanded, redeliveries,
                   attempts, raised, errCalls, redelivered, last>>
    /\ UNCHANGED <<inboxVars, contextVars, sending, registrationVars>>

\* The registry the calls meet: no actor dispatcher, one without key pair
\* dispatcher, one whose key pair dispatcher has a pair or has none.
ContextSendInit ==
    /\ \E q \in {Null, "mq"} :
         constructor([backoffSchedule |-> <<"default">>, onOutboxError |-> Null,
                      queue |-> q])
    /\ QueueIdle
    /\ actorCallbacks \in ActorRegistrations
    /\ router = ConstructorRoutes
                  \cup (IF actorCallbacks.dispatcher # Null
                        THEN { [template |-> ActorPath, name |-> "actor"] }
                        ELSE {})
    /\ inboxListeners = {}
    /\ inboxErrorHandler = Null
    /\ InboxIdle
    /\ ContextNew
    /\ CallsIdle
    /\ NothingRegistered

SpecContextSend == ContextSendInit /\ [][ContextSendActivity]_vars

\* ------------------------------------------------- RequestContext.getActor
\* A getActor call and what it has done so far: the error it threw, the
\* dispatcher invocations that have not returned yet (their handles, the
\* innermost last), the warnings logged, the dispatcher invocations made.
ActorCall(error, stack, warnings, dispatches) ==
    [error |-> error, stack |-> stack, warnings |-> warnings,
     dispatches |-> dispatches]
NoActorCall == ActorCall(Null, <<>>, 0, 0)

\* reqCtx.getActor(handle): throws without an actor dispatcher, else invokes
\* the dispatcher with a context whose getActor is rewrapped.
reqCtx_getActor(call, handle) ==
    IF actorCallbacks.dispatcher = Null
    THEN [call EXCEPT !.error = "No actor dispatcher registered."]
    ELSE [call EXCEPT !.stack = Append(@, handle), !.dispatches = @ + 1]

\* (mutant) the getActor of the dispatcher's context without the warning.
dispatcher_getActorUnwarned(call, handle2) == reqCtx_getActor(call, handle2)

\* getActor(handle2) of the context handed to the dispatcher: the warning,
\* then reqCtx.getActor(handle2).
dispatcher_getActor(call, handle2) ==
    reqCtx_getActor([call EXCEPT !.warnings = @ + 1], handle2)

\* The dispatcher of a getActor call is running.
InActorDispatcher == lastCall.method = "getActor" /\ lastCall.result.stack # <<>>

ActorHandles == {"john", "no-one"}

\* The application calls getActor on the RequestContext.
GetActor ==
    /\ ~InActorDispatcher
    /\ \E handle \in ActorHandles :
         lastCall' = [method |-> "getActor", args |-> <<handle>>,
                      result |-> reqCtx_getActor(NoActorCall, handle)]
    /\ UNCHANGED <<outboxVars, inboxVars, contextVars, registrationVars, sending>>

\* The running dispatcher calls getActor on the context it was handed.
GetActorFromDispatcher ==
    /\ InActorDispatcher
    /\ lastCall.result.dispatches < MaxCalls
    /\ \E handle2 \in ActorHandles :
         lastCall' = [lastCall EXCEPT !.result = dispatcher_getActor(@, handle2)]
    /\ UNCHANGED <<outboxVars, inboxVars, contextVars, registrationVars, sending>>

\* The innermost dispatcher invocation returns.
ActorDispatcherReturns ==
    /\ InActorDispatcher
    /\ lastCall' = [lastCall EXCEPT
                      !.result.stack = SubSeq(@, 1, Len(@) - 1)]
    /\ UNCHANGED <<outboxVars, inboxVars, contextVars, registrationVars, sending>>

GetActorNext ==
    \/ GetActor
    \/ GetActorFromDispatcher
    \/ ActorDispatcherReturns

SpecGetActor == ContextSendInit /\ [][GetActorNext]_vars

\* ------------------------------------------------- the inbox listener setter
\* What on() and onError() give back: the setter, or the error thrown.
SetterResult(error) ==
    [error |-> error, returned |-> IF error = Null THEN "setter" ELSE Null]

\* listeners.has(type), listeners.set(type, listener)
listenersHas(type) == \E l \in inboxListeners : l.type = type
listenersSet(type, listener) ==
    { l \in inboxListeners : l.type # type } \cup { ListenerOf(type, listener) }

\* (mutant) on() that replaces the listener of the type.
onReplacing(type, listener) ==
    /\ inboxListeners' = listenersSet(type, listener)
    /\ lastCall' = [method |-> "on", args |-> <<type, listener>>,
                    result |-> SetterResult(Null)]

\* setter.on(type, listener)
on(type, listener) ==
    IF listenersHas(type)
    THEN /\ lastCall' = [method |-> "on", args |-> <<type, listener>>,
                         result |-> SetterResult("TypeError")]
         /\ UNCHANGED inboxListeners
    ELSE /\ inboxListeners' = listenersSet(type, listener)
         /\ lastCall' = [method |-> "on", args |-> <<type, listener>>,
                         result |-> SetterResult(Null)]

\* setter.onError(handler)
onError(handler) ==
    /\ inboxErrorHandler' = handler
    /\ lastCall' = [method |-> "onError", args |-> <<handler>>,
                    result |-> SetterResult(Null)]

\* The setter is what a setInboxListeners call that succeeded returned.
HasSetter == \E r \in registered : r.name = "inbox"

ListenerNames == {"f", "g"}
ErrorHandlers == {"h1", "h2"}

On ==
    /\ HasSetter
    /\ \E type \in {"Create", "Activity"}, listener \in ListenerNames :
         on(type, listener)
    /\ UNCHANGED <<outboxVars, actorCallbacks, router, inboxErrorHandler, kv,
                   listenerCalls, lastFetch, inflight, contextVars, sending,
                   registrationVars>>

OnError ==
    /\ HasSetter
    /\ \E handler \in ErrorHandlers : onError(handler)
    /\ UNCHANGED <<outboxVars, actorCallbacks, router, inboxListeners, kv,
                   listenerCalls, lastFetch, inflight, contextVars, sending,
                   registrationVars>>

SetterNext ==
    \/ SetInboxListenersFrom({InboxPath, <<"all", "inbox">>},
                             {None, Some(SharedInboxPath)})
    \/ On
    \/ OnError

SpecSetter == ContextInit /\ [][SetterNext]_vars

\* ------------------------------------------- fetch, with its three callbacks
\* A Response: the status, the body, the Vary header.
Response(status, body, vary) == [status |-> status, body |-> body, vary |-> vary]

\* (mutant) the default not-found response with the Vary header of the others.
notFoundVarying(request) == Response(404, "Not Found", Some("Accept, Signature"))

\* The default callbacks.
notFound(request) == Response(404, "Not Found", None)
notAcceptable(request) == Response(406, "Not Acceptable", Some("Accept, Signature"))
unauthorized(request) == Response(401, "Unauthorized", Some("Accept, Signature"))

\* The callbacks an application passes to fetch: none, or its own, which
\* answers with a page of its own.
FetchOptions ==
    [onNotFound : {Null, "custom"}, onNotAcceptable : {Null, "custom"},
     onUnauthorized : {Null, "custom"}]
CustomResponse(callback) == Response(200, callback, None)

\* onNotFound ??= notFound, and the call of the callback.
onNotFound(options, request) ==
    IF options.onNotFound = Null THEN notFound(request)
    ELSE CustomResponse("onNotFound")
onNotAcceptable(options, request) ==
    IF options.onNotAcceptable = Null THEN notAcceptable(request)
    ELSE CustomResponse("onNotAcceptable")
onUnauthorized(options, request) ==
    IF options.onUnauthorized = Null THEN unauthorized(request)
    ELSE CustomResponse("onUnauthorized")

\* The media types of the Accept header.
AcceptTypes == {"application/activity+json", "text/html"}
acceptsJsonLd(accept) ==
    accept \in {"application/activity+json", "application/ld+json", "application/json"}

\* What a fetch call gave back, and the callbacks it invoked.
FetchResult(response, invoked) == [response |-> response, invoked |-> invoked]

\* The actor handler: 404 without a dispatcher or an actor, 406 when the
\* client does not accept ActivityStreams, 401 when the predicate says no.
handleActor(request, accept, handle, options) ==
    IF actorCallbacks.dispatcher = Null
    THEN FetchResult(Some(onNotFound(options, request)), {"onNotFound"})
    ELSE IF handle = Null \/ actorDispatcher(handle) = None
    THEN FetchResult(Some(onNotFound(options, request)), {"actorDispatcher", "onNotFound"})
    ELSE IF ~acceptsJsonLd(accept)
    THEN FetchResult(Some(onNotAcceptable(options, request)),
                     {"actorDispatcher", "onNotAcceptable"})
    ELSE IF actorCallbacks.authorizePredicate = "deny"
    THEN FetchResult(Some(onUnauthorized(options, request)),
                     {"actorDispatcher", "authorizePredicate", "onUnauthorized"})
    ELSE FetchResult(Some(Response(200, "Person", Some("Accept"))),
                     {"actorDispatcher"}
                       \cup (IF actorCallbacks.authorizePredicate = Null THEN {}
                             ELSE {"authorizePredicate"}))

\* The callbacks an inbox delivery invoked.
InboxInvoked(run) ==
    (IF run.listener = "notCalled" THEN {} ELSE {"inboxListener"})
      \cup (IF run.handler = "notCalled" THEN {} ELSE {"inboxErrorHandler"})

\* A whole fetch call with its options: the callback for a path without a
\* route, the actor handler, the inbox handler.
fetchWith(request, accept, options, env) ==
    LET found == routerRoute(request.path)
        call == [method |-> "fetch", args |-> <<request, accept, options>>]
    IN  IF found = None
        THEN /\ lastCall' = [method |-> call.method, args |-> call.args,
                              result |-> FetchResult(Some(onNotFound(options, request)),
                                                     {"onNotFound"})]
             /\ UNCHANGED <<kv, listenerCalls, lastFetch>>
        ELSE IF found[1].name = "actor"
        THEN /\ lastCall' = [method |-> call.method, args |-> call.args,
                              result |-> handleActor(request, accept, found[1].handle,
                                                     options)]
             /\ UNCHANGED <<kv, listenerCalls, lastFetch>>
        ELSE /\ fetch(request, env)
             /\ lastCall' = [method |-> call.method, args |-> call.args,
                              result |-> FetchResult(None, InboxInvoked(lastFetch'))]

\* The requests: a GET of john, of nobody and of a path without a route,
\* and signed deliveries to the inboxes.
GetRequest(path) == PostRequest(path, "none", Null, "none", FirstActivity)
PathJohn == <<"users", "john">>
FetchRequests ==
    { GetRequest(p) : p \in {PathJohn, <<"users", "no-one">>, PathNowhere, <<>>} }
      \cup { PostRequest(p, "valid", "application/activity+json", "activity",
                         FirstActivity) : p \in {PathJohnInbox, PathSharedInbox} }

FetchWith ==
    /\ \E request \in FetchRequests, accept \in AcceptTypes,
          options \in FetchOptions,
          env \in { e \in InboxEnvs : e.handler = "returned" } :
         fetchWith(request, accept, options, env)
    /\ UNCHANGED <<registryVars, inflight, outboxVars, contextVars, sending,
                   registrationVars>>

\* The registry the calls meet: the inbox paths, with or without an actor
\* dispatcher, its key pairs and its authorize predicate, and a queue.
FetchInit ==
    /\ \E q \in {Null, "mq"} :
         constructor([backoffSchedule |-> <<"default">>, onOutboxError |-> Null,
                      queue |-> q])
    /\ QueueIdle
    /\ actorCallbacks \in
         { NoActorCallbacks }
           \cup [dispatcher : {"set"}, keyPairDispatcher : {Null, "forAll"},
                 authorizePredicate : {Null, "allow", "deny"}]
    /\ router = ConstructorRoutes
                  \cup { [template |-> InboxPath, name |-> "inbox"],
                         [template |-> SharedInboxPath, name |-> "sharedInbox"] }
                  \cup (IF actorCallbacks.dispatcher # Null
                        THEN { [template |-> ActorPath, name |-> "actor"] }
                        ELSE {})
    /\ inboxListeners \in {{}, {ListenerOf("Create", "listener")}}
    /\ inboxErrorHandler = Null
    /\ InboxIdle
    /\ ContextNew
    /\ CallsIdle
    /\ NothingRegistered

SpecFetch == FetchInit /\ [][FetchWith]_vars

\* ------------------------------------------------ the URL builders, called
\* The calls of the URL builders of a context.
HandleBuilders == {"getActorUri", "getOutboxUri", "getFollowingUri", "getFollowersUri"}
UriBuilders == HandleBuilders \cup {"getNodeInfoUri", "getObjectUri", "getInboxUri"}
AllValues == [handle |-> "john", id |-> "1"]
UriCalls ==
    { [method |-> "getNodeInfoUri", args |-> <<>>] }
      \cup { [method |-> m, args |-> <<"john">>] : m \in HandleBuilders }
      \cup { [method |-> "getInboxUri", args |-> <<h>>] : h \in {"john", Null} }
      \cup { [method |-> "getObjectUri", args |-> <<cls, AllValues>>] :
                cls \in ObjectClasses }

uriBuilder(call) ==
    IF call.method = "getNodeInfoUri" THEN getNodeInfoUri
    ELSE IF call.method = "getActorUri" THEN getActorUri(call.args[1])
    ELSE IF call.method = "getObjectUri" THEN getObjectUri(call.args[1], call.args[2])
    ELSE IF call.method = "getOutboxUri" THEN getOutboxUri(call.args[1])
    ELSE IF call.method = "getInboxUri" THEN getInboxUri(call.args[1])
    ELSE IF call.method = "getFollowingUri" THEN getFollowingUri(call.args[1])
    ELSE getFollowersUri(call.args[1])

CallUriBuilder ==
    /\ \E call \in UriCalls :
         lastCall' = [method |-> call.method, args |-> call.args,
                      result |-> uriBuilder(call)]
    /\ UNCHANGED <<outboxVars, inboxVars, contextVars, registrationVars, sending>>

\* The URLs handed to getHandleFromActorUri: those getActorUri builds, the
\* same path on another origin, the paths of other routes and of no route.
BuiltActorUris ==
    { getActorUri(h).url[1] : h \in { g \in Handles : getActorUri(g).error = Null } }
OtherUris ==
    { [origin |-> "https://remote.test", pathname |-> <<"users", "john">>],
      NewUrl(<<"users", "john", "outbox">>), NewUrl(<<"users", "john">>),
      NewUrl(<<"nowhere">>), NewUrl(<<>>) }

CallGetHandleFromActorUri ==
    /\ \E actorUri \in BuiltActorUris \cup OtherUris :
         lastCall' = [method |-> "getHandleFromActorUri", args |-> <<actorUri>>,
                      result |-> [handle |-> getHandleFromActorUri(actorUri)]]
    /\ UNCHANGED <<outboxVars, inboxVars, contextVars, registrationVars, sending>>

\* The registration calls next to the builders: a path the surface accepts,
\* a path it refuses.
UriPathsOf(suffix) == { <<"users", "{handle}">> \o suffix, <<"all">> \o suffix }

UrisNext ==
    \/ SetNodeInfoDispatcherFrom({<<"nodeinfo", "2.1">>, <<"nodeinfo", "{id}">>}, {"set"})
    \/ SetActorDispatcherFrom(UriPathsOf(<<>>), {"set"})
    \/ SetObjectDispatcherFrom(UriPathsOf(<<"objects", "{id}">>) \cup {<<"objects">>}, {"set"})
    \/ SetOutboxDispatcherFrom(UriPathsOf(<<"outbox">>), {"set"})
    \/ SetFollowingDispatcherFrom(UriPathsOf(<<"following">>), {"set"})
    \/ SetFollowersDispatcherFrom(UriPathsOf(<<"followers">>), {"set"})
    \/ SetInboxListenersFrom(UriPathsOf(<<"inbox">>), SharedInboxPaths)
    \/ CallUriBuilder
    \/ CallGetHandleFromActorUri

SpecUris == ContextInit /\ [][UrisNext]_vars

\* --------------------------------- registrations among the other operations
\* One Federation with a queue: registrations and the setter's calls in any
\* order with createContext, fetch, sendActivity, the queue listener and
\* calls of the context's methods, each with one or two inputs.
FrameInit ==
    /\ constructor([backoffSchedule |-> <<"default">>, onOutboxError |-> Null,
                    queue |-> "mq"])
    /\ QueueIdle
    /\ RegistryIdle
    /\ InboxIdle
    /\ ContextNew
    /\ CallsIdle
    /\ NothingRegistered

FrameNext ==
    \/ RegisterActor
    \/ RegisterInbox
    \/ On /\ lastCall'.args = <<"Create", "f">>
    \/ OnError /\ lastCall'.args = <<"h1">>
    \/ CreateContext
    \/ FetchPost
    \/ SendToOne /\ lastSend'.recipients = <<ActorA>> /\ ~lastSend'.immediate
    \/ Deliver /\ last'.env = Some([rehydrate |-> "ok", response |-> "2xx"])
    \/ CallUriBuilder /\ lastCall'.method = "getActorUri"
    \/ CallGetObject /\ lastCall'.args = <<"Note", [id |-> "1"]>>
    \/ GetActor /\ lastCall'.args = <<"john">>
    \/ ActorDispatcherReturns

SpecFrame == FrameInit /\ [][FrameNext]_vars

\* ===================================================== the outbound queue
\* The listener has run, on a message of chain last.chain.
HasRun == last.chain # 0

\* The message the last run received, and what the run saw.
LastMessage == last.message[1]
LastEnv == last.env[1]

\* Entries of chain c the queue still has to hand over.
PendingOf(c) == { e \in BagToSet(mqPending) : e.chain = c }

\* The last run was not successfully sent: its try block raised, or the
\* remote inbox answered with a non-success status.
LastNotSent == HasRun /\ (last.result = "caught" \/ LastEnv.response # "2xx")

\* The retry the last run must have enqueued by the schedule: the received
\* message with trial + 1, delayed by the schedule's entry for the trial.
ScheduledRetry ==
    [msg |-> [LastMessage EXCEPT !.trial = LastMessage.trial + 1],
     delay |-> Some(backoffSchedule[LastMessage.trial + 1]),
     chain |-> last.chain]

\* C1 (as claimed): every (activity, inbox) pair that a queued-mode
\* sendActivity enqueued is attempted at most 1 + len(backoffSchedule) times,
\* whatever the at-least-once queue does.
C1_AttemptsBounded ==
    \A c \in Chains : attempts[c] <= 1 + Len(backoffSchedule)

\* C1 (amended): a message of a sendActivity call whose retry chain the queue
\* hands to the listener once per entry is attempted at most
\* 1 + len(backoffSchedule) times.
C1_AttemptsBoundedHandedOnce ==
    \A c \in Chains : ~redelivered[c] => attempts[c] <= 1 + Len(backoffSchedule)

\* C1 witness: a chain handed once per entry that used up all its attempts,
\* while the queue of the same Federation redelivers.
C1_Witness ==
    \E c \in Chains :
        /\ ~redelivered[c]
        /\ Len(backoffSchedule) = MaxBackoff
        /\ attempts[c] = 1 + Len(backoffSchedule)
        /\ PendingOf(c) = {}

\* C2 (as claimed): an attempt that is not successfully sent (the pipeline
\* raised, or the inbox answered with a non-success status) invokes
\* onOutboxError and, when trial < len(backoffSchedule), enqueues a retry.
C2_UnsentIsReportedAndRetried ==
    LastNotSent =>
        /\ (onOutboxError # Null => last.handler # "notCalled")
        /\ (LastMessage.trial < Len(backoffSchedule) => last.enqueued # {})

C5_RehydrateFailureDropped ==
    (HasRun /\ LastEnv.rehydrate = "fail") =>
        /\ (onOutboxError # Null => last.handler # "notCalled")
        /\ last.handlerActivity = None
        /\ last.enqueued = {}

\* C5 (amended): when the activity cannot be rehydrated, onOutboxError is
\* invoked with activity = null and the message is retried as after any other
\* failure: enqueued again with trial + 1 when trial < len(backoffSchedule),
\* dropped only when trial = len(backoffSchedule).
C5_RehydrateFailureRetried ==
    (HasRun /\ LastEnv.rehydrate = "fail") =>
        /\ (onOutboxError # Null => last.handler # "notCalled")
        /\ last.handlerActivity = None
        /\ IF LastMessage.trial < Len(backoffSchedule)
           THEN last.enqueued = {ScheduledRetry}
           ELSE last.enqueued = {}

\* C5 witness: a rehydration failure reported with null and retried.
C5_Witness ==
    /\ HasRun /\ LastEnv.rehydrate = "fail"
    /\ last.handler # "notCalled" /\ last.handlerActivity = None
    /\ last.enqueued # {}

\* C6 (as claimed): a failure of onOutboxError itself, thrown or a rejected
\* promise, never escapes the listener and never changes the retry decision.
C6_HandlerFailureContained ==
    (HasRun /\ last.handler \in {"threw", "rejected"}) =>
        /\ ~last.unhandledRejection
        /\ (last.enqueued # {} <=> LastMessage.trial < Len(backoffSchedule))

\* ================================================================ the inbox
\* A fetch call has ended; the request it answered.
Fetched == lastFetch.outcome # "none"
LastRequest == lastFetch.request[1]

\* The last call answered a validly signed POST of an activity.
SignedActivityPosted ==
    /\ Fetched
    /\ LastRequest.signature = "valid"
    /\ LastRequest.contentType = "application/activity+json"
    /\ LastRequest.body = "activity"

\* The inboxes of the server: john's personal inbox and the shared inbox,
\* with an actor dispatcher that knows john.
LocalInboxes == {PathJohnInbox, PathSharedInbox}

\* A listener matches the Create activities.
ListenerMatches == inboxListeners # {}

\* C7 (as claimed): successive validly signed POSTs of an activity with an id
\* to a local inbox, with a matching listener that does not throw: every
\* response is 202 and the listener has been invoked once in total.
C7_ExactlyOnceAll202 ==
    (/\ SignedActivityPosted
     /\ LastRequest.path \in LocalInboxes
     /\ actorCallbacks.dispatcher # Null
     /\ ListenerMatches
     /\ lastFetch.listener # "threw") =>
        /\ lastFetch.outcome = "response"
        /\ lastFetch.status = 202
        /\ listenerCalls[LastRequest.activity.id] = 1

\* C8 (as claimed): whatever the interleaving of the concurrent calls, the
\* inbox listener fires at most once for an activity id.
C8_ListenerAtMostOnce ==
    \A id \in InboxActivityIds : listenerCalls[id] <= 1

\* C9 (as claimed): with an actor dispatcher and the inbox listeners
\* registered, a POST without Signature header to the personal inbox of an
\* actor is answered with 401 and invokes no listener.
C9_UnsignedPersonalInbox401 ==
    (/\ Fetched
     /\ actorCallbacks.dispatcher # Null
     /\ LastRequest.path = PathJohnInbox
     /\ LastRequest.signature = "none") =>
        /\ lastFetch.outcome = "response"
        /\ lastFetch.status = 401
        /\ lastFetch.listener = "notCalled"

\* C10: when the listener selected for a validly signed activity throws, the
\* registered error handler is invoked once with that error, its own failure
\* is swallowed, and the status is 500; when the listener returns, the status
\* is 202 and the error handler is not invoked.
C10_ListenerFailure ==
    /\ lastFetch.listener = "threw" =>
          /\ lastFetch.outcome = "response"
          /\ lastFetch.status = 500
          /\ inboxErrorHandler # Null =>
                /\ lastFetch.handlerCalls = 1
                /\ lastFetch.handlerError = "listenerError"
                /\ lastFetch.handler \in {"returned", "threw"}
          /\ inboxErrorHandler = Null => lastFetch.handlerCalls = 0
    /\ lastFetch.listener = "returned" =>
          /\ lastFetch.outcome = "response"
          /\ lastFetch.status = 202
          /\ lastFetch.handlerCalls = 0
          /\ lastFetch.handler = "notCalled"

\* C10 witness: a signed Create to john's inbox, the listener threw, the
\* registered error handler was invoked and threw too: 500.
C10_Witness ==
    /\ SignedActivityPosted
    /\ LastRequest.path = PathJohnInbox
    /\ inboxErrorHandler # Null
    /\ lastFetch.listener = "threw"
    /\ lastFetch.handler = "threw"
    /\ lastFetch.handlerCalls = 1
    /\ lastFetch.status = 500

\* ======================================================= the signed key
\* C11 (as claimed): whatever the interleaving of the getSignedKey() and
\* getSignedKeyOwner() calls on one RequestContext, the signature of the
\* request is verified at most once.
C11_VerifiedAtMostOnce == verifications <= 1

\* C12 (as claimed): all getSignedKey() calls of one request return the
\* identical value, all getSignedKeyOwner() calls return the identical value,
\* and the owner is none whenever the signed key is none.
C12_SameValueEveryCall ==
    /\ Cardinality(returnedKeys) <= 1
    /\ Cardinality(returnedOwners) <= 1
    /\ NullValue \in returnedKeys => returnedOwners \subseteq {NullValue}

\* ---------------------------------------------------------- sendActivity
Sent == lastSend.result # "none"
Hrefs(urls) == { Href(u) : u \in urls }
\* The deliveries one call made: its POSTs and the messages it enqueued.
PostsTo(h) == Cardinality({ u \in lastSend.posts : Href(u) = h })
EnqueuedTo(h) == Cardinality({ e \in lastSend.enqueued : e.msg.inbox = h })

\* C13 (as claimed): the extracted inboxes are de-duplicated: no two elements
\* denote the same URL, and one sendActivity call makes at most one POST or
\* one OutboxMessage for each distinct inbox URL.
C13_OnePerDistinctInbox ==
    Sent =>
    /\ \A u, v \in lastSend.inboxes : Href(u) = Href(v) => u = v
    /\ \A h \in Hrefs(lastSend.inboxes) : PostsTo(h) + EnqueuedTo(h) <= 1

\* The personal inboxes of the recipients that have one.
PersonalInboxes(recipients) ==
    { recipients[i].inboxId : i \in DOMAIN recipients } \ {<<>>}
\* The shared inbox of each recipient that has one, the personal inbox of the
\* others that have one.
PreferredInboxes(recipients) ==
    { IF recipients[i].sharedInbox # <<>> THEN recipients[i].sharedInbox
      ELSE recipients[i].inboxId : i \in DOMAIN recipients } \ {<<>>}
Extracted == lastSend.result = "extracted"

\* C14: extractInboxes of a recipient list is exactly the personal inboxes of
\* the recipients that have one when preferSharedInbox is false; when it is
\* true each recipient contributes its shared inbox if it has one and its
\* personal inbox otherwise; a recipient with neither contributes nothing.
C14_ExtractedInboxes ==
    Extracted =>
        lastSend.inboxes =
            IF lastSend.preferSharedInbox
            THEN PreferredInboxes(lastSend.recipients)
            ELSE PersonalInboxes(lastSend.recipients)
\* Extracted with preferSharedInbox from a recipient without a shared inbox,
\* which falls back on its personal inbox, and a recipient without any inbox.
C14_Witness ==
    /\ Extracted
    /\ lastSend.preferSharedInbox
    /\ lastSend.recipients = <<ActorC, ActorD>>
    /\ lastSend.inboxes = {ActorC.inboxId}

\* The call got past the actor check.
Accepted == Sent /\ lastSend.result # "TypeError"
QueuedMode == queue # Null /\ ~lastSend.immediate
\* The extracted inboxes that denote the URL h.
ExtractedAt(h) == Cardinality({ u \in lastSend.inboxes : Href(u) = h })

\* C15: with a queue and without immediate, sendActivity enqueues exactly one
\* OutboxMessage with trial 0 for each extracted inbox and makes no POST; with
\* immediate or without a queue it enqueues nothing and makes one delivery for
\* each extracted inbox.
C15_EnqueueOrPost ==
    Accepted =>
        IF QueuedMode
        THEN /\ lastSend.posts = {}
             /\ Cardinality(lastSend.enqueued) = Cardinality(lastSend.inboxes)
             /\ \A u \in lastSend.inboxes : EnqueuedTo(Href(u)) = ExtractedAt(Href(u))
             /\ \A e \in lastSend.enqueued :
                  /\ e.msg.trial = 0
                  /\ e.msg.inbox \in Hrefs(lastSend.inboxes)
                  /\ e \in BagToSet(mqPending)
        ELSE /\ lastSend.enqueued = {}
             /\ lastSend.posts = lastSend.inboxes
\* A queued call that enqueued two messages.
C15_Witness ==
    /\ Accepted
    /\ QueuedMode
    /\ Cardinality(lastSend.enqueued) = 2

\* C16 (as claimed): an immediate sendActivity call does not return, with
\* success or with an error, before every delivery it started has ended.
C16_ReturnsAfterAllDeliveries == sending.pc = "returned" => AllTerminated

\* C17: sendActivity of an activity without an actor fails with a TypeError
\* and has no effect: nothing is enqueued, no delivery is attempted, and the
\* call does not start the queue listener.
C17_NoActorNoEffect ==
    [][ (lastSend'.result = "TypeError" /\ lastSend' # lastSend) =>
           /\ lastSend'.enqueued = {}
           /\ lastSend'.posts = {}
           /\ UNCHANGED <<mqPending, chains, listenCalls, queueStarted, sending>> ]_vars
\* The call without an actor is the first call of a Federation with a queue:
\* the listener is still not started.
C17_Witness ==
    /\ lastSend.result = "TypeError"
    /\ queue # Null
    /\ ~queueStarted
    /\ listenCalls = 0

\* C18: sendActivity of a valid activity to recipients without any inbox
\* completes successfully, in queued and in immediate mode alike; nothing is
\* enqueued and no delivery is attempted.
C18_NoInboxNoDelivery ==
    [][ (lastSend' # lastSend /\ lastSend'.result # "TypeError"
           /\ lastSend'.inboxes = {}) =>
           /\ lastSend'.result = "ok"
           /\ lastSend'.enqueued = {}
           /\ lastSend'.posts = {}
           /\ UNCHANGED <<mqPending, chains, sending>> ]_vars
\* A call for one recipient without inbox has completed, in queued mode.
C18_Witness ==
    /\ lastSend.result = "ok"
    /\ lastSend.recipients = <<ActorD>>
    /\ lastSend.inboxes = {}
    /\ QueuedMode

\* ------------------------------------------------------ the registrations
\* The dispatcher in effect for a surface; the inbox has none of its own.
DispatcherOf(name) ==
    IF name = "nodeInfo" THEN nodeInfoDispatcher
    ELSE IF name = "actor" THEN actorCallbacks.dispatcher
    ELSE IF name = "outbox"
    THEN (IF outboxCallbacks = None THEN Null ELSE outboxCallbacks[1].dispatcher)
    ELSE IF name = "following"
    THEN (IF followingCallbacks = None THEN Null ELSE followingCallbacks[1].dispatcher)
    ELSE IF name = "followers"
    THEN (IF followersCallbacks = None THEN Null ELSE followersCallbacks[1].dispatcher)
    ELSE IF \E cls \in ObjectClasses : name = objectRouteName(cls)
    THEN LET cls == CHOOSE c \in ObjectClasses : name = objectRouteName(c)
         IN  IF objectCallbacks[cls] = None THEN Null
             ELSE objectCallbacks[cls][1].dispatcher
    ELSE Null
\* The route and the callbacks of a registration that succeeded are in effect.
InEffect(r) ==
    /\ RouteOf(r.name) = {r.path}
    /\ DispatcherOf(r.name) = r.dispatcher
    /\ r.sharedInboxPath # None => RouteOf("sharedInbox") = {r.sharedInboxPath[1]}
\* The step is a registration call for a surface registered before.
RegistersAgain ==
    /\ registrations' = registrations + 1
    /\ \E r \in registered : r.name = lastRegistration'.name

\* C20: for NodeInfo, actor, each object class, outbox, following, followers
\* and inbox, once a registration has succeeded every later registration call
\* for the same surface raises a RouterError and leaves the route and the
\* callbacks of the first registration in effect.
C20_RegisteredOnce ==
    /\ [](\A r \in registered : InEffect(r))
    /\ [][ RegistersAgain =>
             /\ lastRegistration'.result = "RouterError"
             /\ UNCHANGED <<registryVars, nodeInfoDispatcher, objectCallbacks,
                            outboxCallbacks, followingCallbacks, followersCallbacks,
                            registered>> ]_vars
\* A second NodeInfo registration, with another path and another dispatcher
\* than the first, has raised the RouterError.
C20_Witness ==
    /\ \E r \in registered :
         /\ r.name = "nodeInfo"
         /\ lastRegistration.name = "nodeInfo"
         /\ lastRegistration.path # r.path
         /\ lastRegistration.dispatcher # r.dispatcher
    /\ lastRegistration.result = "RouterError"

\* ------------------------------------------------------- the queue listener
\* C19: over the lifetime of one Federation queue.listen is called at most
\* once, whatever sendActivity calls are made; it is not called by the
\* construction, by a registration, by createContext or by fetch, nor when no
\* queue is configured; and it has been called when the Federation enqueues
\* its first message.
C19_ListenOnce ==
    /\ listenCalls = 0
    /\ [](/\ listenCalls <= 1
          /\ queue = Null => listenCalls = 0
          /\ (chains > 0 \/ mqPending # EmptyBag) => (listenCalls = 1 /\ queueStarted))
    /\ [][ listenCalls' # listenCalls =>
             /\ lastSend' # lastSend
             /\ lastSend'.result = "ok"
             /\ lastSend'.listens = 1
             /\ UNCHANGED <<inboxVars, contextVars, registrationVars>> ]_vars
\* Two sendActivity calls have enqueued a message each, between registrations
\* and a fetch call, and listen was called once.
C19_Witness ==
    /\ listenCalls = 1
    /\ chains = 2
    /\ registrations > 0
    /\ lastFetch.outcome # "none"
    /\ lastSend.result = "TypeError"

\* The variables the path of a surface must have.
HandleSurfaces == {"actor", "outbox", "following", "followers"}
IsObjectSurface(name) == \E cls \in ObjectClasses : name = objectRouteName(cls)
\* The last registration call gave a path whose variables are not those the
\* surface requires.
WrongVariables ==
    LET r == lastRegistration
    IN  IF r.name = "nodeInfo" THEN variablesOf(r.path) # {}
        ELSE IF r.name \in HandleSurfaces THEN variablesOf(r.path) # {"handle"}
        ELSE IF IsObjectSurface(r.name) THEN variablesOf(r.path) = {}
        ELSE IF r.name = "inbox"
        THEN \/ variablesOf(r.path) # {"handle"}
             \/ (r.sharedInboxPath # None /\ variablesOf(r.sharedInboxPath[1]) # {})
        ELSE FALSE

\* C21: a registration whose path has other variables than the surface
\* requires raises a RouterError: none for NodeInfo and the shared inbox,
\* exactly {handle} for actor, outbox, following, followers and the personal
\* inbox, at least one for an object class.
C21_WrongVariablesRaise ==
    (lastRegistration.result # "none" /\ WrongVariables) =>
        lastRegistration.result = "RouterError"
\* The first registration of the inbox, with a shared inbox path that has a
\* variable, has raised the RouterError of the shared inbox.
C21_Witness ==
    /\ registrations = 1
    /\ lastRegistration.name = "inbox"
    /\ variablesOf(lastRegistration.path) = {"handle"}
    /\ lastRegistration.sharedInboxPath = Some(<<"inbox", "{id}">>)
    /\ lastRegistration.result = "RouterError"
    /\ lastRegistration.message = "Path for shared inbox must have no variables."

\* The variables of a route are those its surface requires.
RightVariables(route) ==
    IF route.name \in {"nodeInfo", "sharedInbox"} THEN variablesOf(route.template) = {}
    ELSE IF route.name \in HandleSurfaces \cup {"inbox"}
    THEN variablesOf(route.template) = {"handle"}
    ELSE IF IsObjectSurface(route.name) THEN variablesOf(route.template) # {}
    ELSE TRUE

\* C22 (as claimed): after any sequence of registration calls, those that
\* raised an error included, every surface route in the router has a template
\* with the variables the surface requires (at least one for an object route).
C22_RoutesHaveRightVariables == \A route \in router : RightVariables(route)

\* ---------------------------------------------------------- the URL builders
\* A registration of the surface has succeeded.
Succeeded(name) == \E r \in registered : r.name = name
\* The surface a builder call is about, and whether it is registered.
SurfaceOf(call) ==
    IF call.method = "getNodeInfoUri" THEN "nodeInfo"
    ELSE IF call.method = "getActorUri" THEN "actor"
    ELSE IF call.method = "getObjectUri" THEN objectRouteName(call.args[1])
    ELSE IF call.method = "getOutboxUri" THEN "outbox"
    ELSE IF call.method = "getFollowingUri" THEN "following"
    ELSE IF call.method = "getFollowersUri" THEN "followers"
    ELSE IF call.args[1] = Null THEN "sharedInbox"
    ELSE "inbox"
SurfaceRegistered(call) ==
    IF SurfaceOf(call) = "sharedInbox"
    THEN \E r \in registered : r.name = "inbox" /\ r.sharedInboxPath # None
    ELSE Succeeded(SurfaceOf(call))
\* The values a builder call hands to the template.
ValuesOf(call) ==
    IF call.method = "getObjectUri" THEN call.args[2]
    ELSE IF call.method = "getNodeInfoUri" \/ call.args[1] = Null THEN <<>>
    ELSE [handle |-> call.args[1]]
\* The step is a call of a URL builder.
Called(methods) ==
    /\ lastCall'.method \in methods
    /\ IF lastCall.method = lastCall'.method THEN lastCall' # lastCall ELSE TRUE
BuilderCalled == Called(UriBuilders)

\* C23 (as claimed): whatever registration calls were made, a URL builder
\* raises a RouterError exactly when the dispatcher of its surface is not
\* registered at the time of the call, and otherwise returns the origin of
\* the context joined with the path built from the template of the surface.
C23_BuilderRaisesIffUnregistered ==
    [][ BuilderCalled =>
          IF SurfaceRegistered(lastCall')
          THEN /\ lastCall'.result.error = Null
               /\ lastCall'.result.url =
                    Some(NewUrl(routerBuild(SurfaceOf(lastCall'), ValuesOf(lastCall'))[1]))
          ELSE lastCall'.result.error = "RouterError" ]_vars

\* The step is a call of getHandleFromActorUri.
HandleAsked == Called({"getHandleFromActorUri"})

\* C24 (as claimed): with an actor route registered,
\* getHandleFromActorUri(getActorUri(h)) = h for every handle h, and
\* getHandleFromActorUri(U) is none for every URL U of another origin or
\* whose path routes to something else than the actor route, or to nothing.
C24_HandleRoundTrip ==
    [][ (HandleAsked /\ routerHas("actor")) =>
          LET U == lastCall'.args[1]
          IN  /\ \A h \in Handles :
                   (getActorUri(h).error = Null /\ getActorUri(h).url = Some(U))
                     => lastCall'.result.handle = h
              /\ (U.origin # Origin \/ routerRoute(U.pathname) = None
                    \/ routerRoute(U.pathname)[1].name # "actor")
                     => lastCall'.result.handle = Null ]_vars

\* C25: the context an inbox listener is called with carries, for a
\* delivery to the personal inbox of an actor, the document loader
\* authenticated with the key of that actor (key id: the actor URI followed
\* by #main-key), and for a delivery to the shared inbox the default loader
\* of the registry.
C25_ListenerLoader ==
    lastFetch.listener # "notCalled" =>
      LET path == lastFetch.request[1].path
      IN  IF path = PathSharedInbox
          THEN lastFetch.loader = DefaultDocumentLoader
          ELSE \E h \in {"john", "no-one"} :
                 /\ path = <<"users", h, "inbox">>
                 /\ lastFetch.loader =
                      "authenticated:" \o Origin \o "/users/" \o h \o "#main-key"

C25_Witness ==
    /\ lastFetch.listener = "returned"
    /\ lastFetch.request[1].path = PathJohnInbox
    /\ lastFetch.loader = "authenticated:https://example.com/users/john#main-key"

\* The step is a call of fetch.
FetchCalled == Called({"fetch"})

\* C26: for a request whose path matches no route fetch returns exactly the
\* response of onNotFound, by default a 404 without a Vary header, invokes
\* no dispatcher, predicate or listener and touches neither the store nor
\* the queue; the default responses of onNotAcceptable and onUnauthorized
\* are a 406 and a 401 with Vary: Accept, Signature.
C26_NotFoundOnly ==
    [][ FetchCalled =>
          LET request == lastCall'.args[1]
              options == lastCall'.args[3]
              result == lastCall'.result
          IN  /\ routerRoute(request.path) = None =>
                   /\ result.response =
                        Some(IF options.onNotFound = Null
                             THEN [status |-> 404, body |-> "Not Found", vary |-> None]
                             ELSE CustomResponse("onNotFound"))
                   /\ result.invoked = {"onNotFound"}
                   /\ UNCHANGED <<kv, listenerCalls, lastFetch, outboxVars>>
              /\ ("onNotAcceptable" \in result.invoked /\ options.onNotAcceptable = Null) =>
                   result.response =
                     Some([status |-> 406, body |-> "Not Acceptable",
                           vary |-> Some("Accept, Signature")])
              /\ ("onUnauthorized" \in result.invoked /\ options.onUnauthorized = Null) =>
                   result.response =
                     Some([status |-> 401, body |-> "Unauthorized",
                           vary |-> Some("Accept, Signature")]) ]_vars

C26_Witness ==
    /\ lastCall.method = "fetch"
    /\ lastCall.args[1].path = PathNowhere
    /\ lastCall.args[3].onNotFound = Null
    /\ lastCall.result.response[1].status = 404
    /\ queue # Null
    /\ inboxListeners # {}

\* C27: once on(C, f) succeeded a later on(C, g) raises an error and f stays
\* the listener of C; onError(h2) after onError(h1) succeeds and leaves h2
\* as the only error handler; both give back the same setter.
C27_ListenerOnceHandlerLast ==
    [][ /\ Called({"on"}) =>
             LET type == lastCall'.args[1]
             IN  IF \E l \in inboxListeners : l.type = type
                 THEN /\ lastCall'.result.error # Null
                      /\ inboxListeners' = inboxListeners
                 ELSE /\ lastCall'.result.returned = "setter"
                      /\ ListenerOf(type, lastCall'.args[2]) \in inboxListeners'
        /\ Called({"onError"}) =>
             /\ lastCall'.result.error = Null
             /\ lastCall'.result.returned = "setter"
             /\ inboxErrorHandler' = lastCall'.args[1] ]_vars

C27_Witness ==
    /\ lastCall.method = "on"
    /\ lastCall.args = <<"Create", "g">>
    /\ lastCall.result.error = "TypeError"
    /\ ListenerOf("Create", "f") \in inboxListeners
    /\ inboxErrorHandler = "h2"

\* The step is a call of Context.sendActivity by a {handle} sender.
SentByHandle ==
    /\ lastCall'.method = "sendActivity"
    /\ "handle" \in DOMAIN lastCall'.args[1]
    /\ IF lastCall.method = "sendActivity" THEN lastCall' # lastCall ELSE TRUE

\* C28: Context.sendActivity with a {handle} sender resolves the key pair
\* first: without a key pair dispatcher or without a key pair the call fails
\* with that error, also when the activity is invalid, and nothing of
\* Federation.sendActivity happens (no queue start, no enqueue, no delivery);
\* otherwise it is Federation.sendActivity with the actor URI followed by
\* #main-key as key id and the private key of the dispatched pair.
C28_KeyPairFirst ==
    [][ SentByHandle =>
          LET handle == lastCall'.args[1].handle
              given == lastCall'.args[2]
              keyId == Origin \o "/users/" \o encodeURIComponent(handle) \o "#main-key"
          IN  IF actorCallbacks.keyPairDispatcher \in {Null, "forNone"}
              THEN /\ lastCall'.result.error =
                        (IF actorCallbacks.keyPairDispatcher = Null
                         THEN "No actor key pair dispatcher registered."
                         ELSE "No key pair found for actor")
                   /\ UNCHANGED <<lastSend, listenCalls, queueStarted, mqPending, chains>>
              ELSE IF given.actorId = Null
              THEN /\ lastCall'.result.error = "TypeError"
                   /\ lastSend'.result = "TypeError"
              ELSE /\ lastSend'.sender =
                        Some([keyId |-> keyId, privateKey |-> "privateKey3"])
                   /\ lastSend'.started = (queue # Null)
                   /\ \A m \in lastSend'.enqueued :
                        /\ m.msg.keyId = keyId
                        /\ m.msg.privateKey = exportJwk("privateKey3") ]_vars

C28_Witness ==
    /\ lastCall.method = "sendActivity"
    /\ lastCall.args[1] = [handle |-> "john"]
    /\ lastCall.args[2].actorId = Null
    /\ lastCall.result.error = "No key pair found for actor"
    /\ queue # Null
    /\ ~queueStarted
    /\ lastSend = NoSend

\* C29: getObject(cls, values) and getObjectUri(cls, values) fail with a
\* TypeError, the object dispatcher not invoked, whenever values lacks a
\* variable of the template registered for cls, and fail with an error when
\* no dispatcher is registered for cls.
C29_MissingParameter ==
    [][ Called({"getObject", "getObjectUri"}) =>
          LET cls == lastCall'.args[1]
              values == lastCall'.args[2]
              result == lastCall'.result
          IN  IF ~Succeeded(objectRouteName(cls))
              THEN result.error # Null /\ ~result.dispatched
              ELSE (\E template \in RouteOf(objectRouteName(cls)) :
                      ~(variablesOf(template) \subseteq DOMAIN values))
                     => (result.error = "TypeError" /\ ~result.dispatched) ]_vars

C29_Witness ==
    /\ lastCall.method = "getObject"
    /\ lastCall.args = <<"Note", [id |-> "1"]>>
    /\ lastCall.result.error = "TypeError"
    /\ RouteOf(objectRouteName("Note")) = { <<"users", "{handle}", "notes", "{id}">> }

\* The getActor call before the step, if one was made.
ActorCallBefore == IF lastCall.method = "getActor" THEN lastCall.result ELSE NoActorCall

\* C30: a getActor call made through the context that getActor handed to
\* the actor dispatcher logs one recursion warning and then invokes the actor
\* dispatcher again, at every nesting depth; a getActor call made directly on
\* the RequestContext logs no warning.
C30_RecursionWarning ==
    [][ Called({"getActor"}) =>
          LET before == ActorCallBefore
              after == lastCall'.result
          IN  IF before.stack # <<>> /\ Len(after.stack) > Len(before.stack)
              THEN /\ after.warnings = before.warnings + 1
                   /\ after.dispatches = before.dispatches + 1
                   /\ Len(after.stack) = Len(before.stack) + 1
              ELSE IF before.stack = <<>>
              THEN /\ after.warnings = 0
                   /\ actorCallbacks.dispatcher # Null =>
                        (after.dispatches = 1 /\ Len(after.stack) = 1)
              ELSE after.warnings = before.warnings ]_vars

C30_Witness ==
    /\ lastCall.method = "getActor"
    /\ Len(lastCall.result.stack) = 3
    /\ lastCall.result.warnings = 2
    /\ lastCall.result.dispatches = 3

\* ================================================== the retry chains
\* The (activity, inbox) pair of a queue entry.
PairOf(entry) == <<entry.msg.activity, entry.msg.inbox>>
\* How many pending entries the queue holds for a pair.
PendingFor(pair) ==
    LET entries == { e \in BagToSet(mqPending) : PairOf(e) = pair }
        RECURSIVE Copies(_)
        Copies(S) == IF S = {} THEN 0
                     ELSE LET e == CHOOSE x \in S : TRUE
                          IN  CopiesIn(e, mqPending) + Copies(S \ {e})
    IN  Copies(entries)

\* C31 (as claimed): when the queue hands each message to the listener once,
\* every message on the queue has 0 <= trial <= len(backoffSchedule), at most
\* one message is pending for an (activity, inbox) pair of one sendActivity
\* call, and the trials the listener sees for it are 0, 1, 2, ... in steps of
\* one.
C31_OneMessagePerPair ==
    /\ \A e \in BagToSet(mqPending) :
          0 <= e.msg.trial /\ e.msg.trial <= Len(backoffSchedule)
    /\ \A e \in BagToSet(mqPending) : PendingFor(PairOf(e)) <= 1
    /\ HasRun => LastMessage.trial = attempts[last.chain] - 1

\* The message sendActivity enqueued for a chain.
FirstOf(c) == { e.msg : e \in { o \in lastSend.enqueued : o.chain = c } }

\* C32: a message the listener enqueues again is the message it received
\* with trial incremented by one; type, keyId, privateKey, activity and inbox
\* are the same along the whole retry chain.
C32_RetryKeepsMessage ==
    /\ HasRun =>
          \A e \in last.enqueued :
             /\ e.msg.type = LastMessage.type
             /\ e.msg.keyId = LastMessage.keyId
             /\ e.msg.privateKey = LastMessage.privateKey
             /\ e.msg.activity = LastMessage.activity
             /\ e.msg.inbox = LastMessage.inbox
             /\ e.msg.trial = LastMessage.trial + 1
             /\ DOMAIN e.msg = DOMAIN LastMessage
    /\ \A e \in BagToSet(mqPending) \cup BagToSet(mqHanded) :
          [e.msg EXCEPT !.trial = 0] \in FirstOf(e.chain)

C32_Witness ==
    /\ HasRun
    /\ LastMessage.trial = 1
    /\ \E e \in last.enqueued : e.msg.trial = 2 /\ e \in BagToSet(mqPending)

\* C33: under a fair queue whose attempts all end, the retry chain of every
\* enqueued message ends, after at most 1 + len(backoffSchedule) attempts:
\* the message is delivered or given up, and from then on the queue holds
\* nothing for it.
C33_ChainsTerminate ==
    /\ \A c \in Chains : (PendingOf(c) # {}) ~> [](PendingOf(c) = {})
    /\ [](\A c \in Chains : attempts[c] <= 1 + Len(backoffSchedule))

\* C33 witness: a chain that failed three times and was given up, the queue
\* empty.
C33_Witness ==
    /\ Len(backoffSchedule) = 2
    /\ mqPending = EmptyBag
    /\ mqHanded # EmptyBag
    /\ \E c \in Chains : attempts[c] = 3 /\ raised[c] = 3

\* The activities one call handed to its deliveries and put in its messages.
ActivitiesSent ==
    { s[2] : s \in lastSend.sent } \cup { fromJsonLd(e.msg.activity) : e \in lastSend.enqueued }

\* C34: every delivery and every OutboxMessage of one sendActivity call
\* carries the same activity, and its id is not null: the caller's id when
\* there is one, else one urn:uuid id minted once for the call, on a clone:
\* the caller's activity is left without an id.
C34_OneIdPerCall ==
    lastSend.activity # None =>
        LET activity == lastSend.activity[1]
            given == lastSend.given[1]
        IN  /\ ActivitiesSent \subseteq {activity}
            /\ activity.id # Null
            /\ activity.actorId = given.actorId
            /\ given.id # Null => activity.id = given.id
            /\ given.id = Null => activity.id \in { randomUUID(n) : n \in 1..(MaxMessages + 1) }
            /\ Hrefs({ s[1] : s \in lastSend.sent }) = Hrefs(lastSend.posts)
            /\ Cardinality(lastSend.sent) = Cardinality(lastSend.posts)

\* C34 witness: two messages enqueued by a call whose activity had no id.
C34_Witness ==
    /\ lastSend.given # None
    /\ lastSend.given[1].id = Null
    /\ Cardinality(lastSend.enqueued) = 2
    /\ \A e \in lastSend.enqueued : e.msg.activity[2] = lastSend.activity[1].id

\* Two POSTs made by an immediate call whose activity had no id.
C34_WitnessImmediate ==
    /\ lastSend.given # None
    /\ lastSend.given[1].id = Null
    /\ Cardinality(lastSend.sent) = 2

\* The queue has accepted the entry: it is on the queue or was handed on.
TakenByQueue(e) == e \in BagToSet(mqPending) \cup BagToSet(mqHanded)

\* C35 (as claimed): once a queued sendActivity call has returned
\* successfully the queue has accepted each of its messages, and once a run
\* of the listener has ended the queue has accepted the retry it enqueued: no
\* enqueue is pending or has failed unreported.
C35_EnqueueAccepted ==
    /\ lastSend.result = "ok" => \A e \in lastSend.enqueued : TakenByQueue(e)
    /\ HasRun => \A e \in last.enqueued : TakenByQueue(e)
    /\ \A p \in enqueues : p.state # "rejected"

\* A call that returned successfully, one of its messages rejected by the
\* queue and on no queue.
C35_LostMessage ==
    /\ lastSend.result = "ok"
    /\ \E e \in lastSend.enqueued :
         /\ EnqueuePromise(e, "rejected") \in enqueues
         /\ ~TakenByQueue(e)

\* A retry the queue rejected after the listener had returned.
C35_LostRetry ==
    /\ HasRun
    /\ \E e \in last.enqueued :
         /\ EnqueuePromise(e, "rejected") \in enqueues
         /\ ~TakenByQueue(e)

\* C36 (as claimed): a fetch call in which no callback of the application
\* raised ends with a Response and never with an exception, the POST to a
\* personal inbox included when no key pair dispatcher is registered or it
\* yields no key pair for the handle.
C36_FetchAnswers ==
    (Fetched /\ lastFetch.listener # "threw" /\ lastFetch.handler # "threw")
        => (lastFetch.outcome = "response" /\ lastFetch.error = Null)

\* A POST to a personal inbox that fetch answered with an exception, no
\* callback called, the key pair dispatcher yielding no pair.
C36_RejectedWithoutKeyPair ==
    /\ lastFetch.outcome = "exception"
    /\ lastFetch.request[1].path = PathJohnInbox
    /\ lastFetch.listener = "notCalled"
    /\ lastFetch.handler = "notCalled"
    /\ actorCallbacks.keyPairDispatcher = "forNone"

\* The surfaces served by a dispatcher, and whether the registry holds it.
DispatcherSurfaces ==
    {"nodeInfo", "actor", "outbox", "following", "followers"}
        \cup { objectRouteName(cls) : cls \in ObjectClasses }
DispatcherHeld(name) ==
    IF name = "nodeInfo" THEN nodeInfoDispatcher # Null
    ELSE IF name = "actor" THEN actorCallbacks.dispatcher # Null
    ELSE IF name = "outbox" THEN outboxCallbacks # None
    ELSE IF name = "following" THEN followingCallbacks # None
    ELSE IF name = "followers" THEN followersCallbacks # None
    ELSE \E cls \in ObjectClasses : name = objectRouteName(cls) /\ objectCallbacks[cls] # None

\* C37 (as claimed): after any sequence of registration calls, those that
\* raised included, the router has the route of a surface exactly when the
\* registry holds the dispatcher of that surface, so the dispatcher fetch
\* hands to the handler of a routed request is defined.
C37_RouteIffDispatcher ==
    \A name \in DispatcherSurfaces : routerHas(name) <=> DispatcherHeld(name)

\* The NodeInfo route in the router after a call that raised, no NodeInfo
\* dispatcher in the registry.
C37_RouteWithoutDispatcher ==
    /\ routerHas("nodeInfo")
    /\ nodeInfoDispatcher = Null
    /\ lastRegistration.name = "nodeInfo"
    /\ lastRegistration.result = "RouterError"

\* The routes, the dispatchers and callbacks, the inbox listeners and the
\* inbox error handler of the registry.
RegistryState ==
    <<router, actorCallbacks, inboxListeners, inboxErrorHandler, nodeInfoDispatcher,
      objectCallbacks, outboxCallbacks, followingCallbacks, followersCallbacks>>
\* The step is a registration call or a call of the setter it returned.
RegistrationStep == registrations' # registrations \/ Called({"on", "onError"})
\* The step is a fetch, a createContext, a sendActivity, a run of the queue
\* listener or a call of a method of a context.
ContextMethods == UriBuilders \cup {"getObject", "getActor", "getHandleFromActorUri"}
OperationStep ==
    \/ lastFetch' # lastFetch
    \/ kv' # kv
    \/ lastSend' # lastSend
    \/ attempts' # attempts
    \/ contextVars' # contextVars
    \/ Called(ContextMethods)

\* C38: fetch, createContext, sendActivity, the queue listener and the
\* methods of a context leave the routes, the dispatchers and callbacks and
\* the inbox listeners as they are; a step that changes one of them is a
\* registration call or a call of the setter a registration returned.
C38_RegistryFrame ==
    [][ /\ RegistryState' # RegistryState => RegistrationStep
        /\ OperationStep => RegistryState' = RegistryState ]_vars

\* C38 witness: an actor dispatcher, a listener and an error handler
\* registered, still there after a POST was answered 202, an activity was
\* sent through the queue, the listener ran and getActorUri was called.
C38_Witness ==
    /\ routerHas("actor")
    /\ actorCallbacks.dispatcher = "set"
    /\ inboxListeners = {ListenerOf("Create", "f")}
    /\ inboxErrorHandler = "h1"
    /\ lastFetch.outcome = "response"
    /\ lastFetch.status = 202
    /\ lastSend.result = "ok"
    /\ HasRun
    /\ lastCall.method = "getActorUri"
====
